---- MODULE Spec2Model ----
(***************************************************************************)
(* Instance lifecycle manager of undetected_geckodriver: working copies    *)
(* and profile directories under two managed temp roots, their lock        *)
(* markers (ugff.lock), the background lock file watcher, the stale sweep, *)
(* the deep clean and the teardown of an instance.                         *)
(*                                                                         *)
(* Time is wall-clock seconds.  File operations take no model time: the    *)
(* clock advances (one refresh interval at a time) only while every thread *)
(* is blocked: sleeping in the watcher loop or waiting for its caller.     *)
(* A directory name is a sequence of tokens, so that str.startswith is a   *)
(* prefix test on sequences and "id in name" a membership test.            *)
(***************************************************************************)
EXTENDS Integers, Sequences, FiniteSets, TLC

\* ------------------------------------------------------------ constants.py
CLEANUP_THRESHOLD_MINUTES == 20

LOCK_FILE_UPDATE_INTERVAL_SECONDS == 300

TEMP_DIR_PREFIX == <<"ugff_">>

PROFILE_DIR_PREFIX == <<"ugff_", "profile_">>

MOZ_PROFILE_PREFIX == <<"rust_mozprofile">>

\* timedelta(minutes=m) in seconds
SecondsPerMinute == 60

\* ------------------------------------------------------------ bounds
\* refresh intervals the clock may advance after the initial state
MaxTicks == 1

\* removals that may fail after all fallbacks, over a whole run
MaxFaults == 1

\* instances (sessions), possibly of different processes; uuid4()[:8] gives
\* each its own identifier.  Instance "a" is followed statement by statement;
\* its peer "b" runs each of its handlers (construction, one watcher
\* iteration, teardown) in one step.
Inst == {"a", "b"}

\* identifier of a crashed earlier instance whose directories were left behind
DeadId == "x"

InitNow == (CLEANUP_THRESHOLD_MINUTES + 2) * SecondsPerMinute

MaxNow == InitNow + MaxTicks * LOCK_FILE_UPDATE_INTERVAL_SECONDS

\* ------------------------------------------------------------ names
TempName(id) == TEMP_DIR_PREFIX \o <<id>>

ProfileName(id) == PROFILE_DIR_PREFIX \o <<id>>

\* an unrelated sibling in the copies root
OtherTemp == <<"unrelated">>

\* a sibling of the profiles root that carries the copies prefix only
OtherProf == <<"ugff_", "y">>

TempNames == {TempName(i) : i \in Inst \cup {DeadId}} \cup {OtherTemp}

ProfNames == {ProfileName(i) : i \in Inst \cup {DeadId}} \cup {OtherProf}

\* scratch profile the automation client creates for an instance without a
\* custom profile; its random suffix does not contain the instance id
ScratchName(i) == MOZ_PROFILE_PREFIX \o <<IF i = "a" THEN "r1" ELSE "r2">>

ForeignScratch == MOZ_PROFILE_PREFIX \o <<"rz">>

\* a scratch profile whose name holds the identifier of the crashed instance
OwnedScratch == MOZ_PROFILE_PREFIX \o <<DeadId>>

\* an unrelated entry of the system temp directory
OtherSys == <<"systemd-private">>

\* str.startswith
StartsWith(item, prefix) ==
    /\ Len(item) >= Len(prefix)
    /\ SubSeq(item, 1, Len(prefix)) = prefix

\* ------------------------------------------------------------ lock markers
NoLock == [kind |-> "missing", ts |-> 0, id |-> ""]

\* empty or partially written file: json.load raises JSONDecodeError
CorruptLock == [kind |-> "corrupt", ts |-> 0, id |-> ""]

\* a JSON object without the "timestamp" key
NoTsLock == [kind |-> "nots", ts |-> 0, id |-> DeadId]

\* a JSON object whose "timestamp" is 0 or null (the stale sweep skips it as
\* falsy) or not a number (datetime.fromtimestamp raises, which the stale
\* sweep only logs); the deep clean finds the key and leaves it alone
BadTsLock == [kind |-> "badts", ts |-> 0, id |-> DeadId]

ValidLock(t, id) == [kind |-> "valid", ts |-> t, id |-> id]

\* a JSON object with a timestamp and no "id" key: no sweep reads the id, so
\* it is read like every other marker with a timestamp
NoIdLock(t) == ValidLock(t, "")

Absent == [exists |-> FALSE, lock |-> NoLock]

Dir(l) == [exists |-> TRUE, lock |-> l]

VARIABLES
    now,        \* wall clock, seconds
    tempRoot,   \* copies root: name -> [exists, lock]
    profRoot,   \* profiles root: name -> [exists, lock]
    sysTmp,     \* entries of the system temp directory (names)
    pc,         \* main thread of each instance
    profile,    \* _profile_path of each instance: "none" | "set"
    running,    \* LockFileWatcher.running
    wpc,        \* watcher thread of each instance
    wake,       \* end of the watcher thread's current sleep
    hist,       \* per instance: the steps its teardown has taken, in order
    last,       \* the reaper operation of the latest step, if it was one
    faults,     \* removals that have failed so far
    error,      \* per instance: the exception __init__ raised, and at which step
    args,       \* per instance: the arguments added to self.options
    patcher,    \* _patch_libxul_file on one file, taken alone
    locator,    \* find_firefox_path on one set of paths, taken alone
    copier,     \* create_firefox_copy called again and again, taken alone
    watcher,    \* one LockFileWatcher with its thread, taken alone
    platform,   \* get_platform_config on one platform.system(), taken alone
    reaper,     \* the sweeps of one construction, entry by entry, taken alone
    managers,   \* two sessions whose identifiers are drawn, taken alone
    footprint   \* the paths one instance computes, writes and removes, alone

vars == <<now, tempRoot, profRoot, sysTmp, pc, profile, running, wpc, wake, hist, last, faults,
          error, args, patcher, locator, copier, watcher, platform, reaper, managers, footprint>>

\* the components that are also exercised in isolation
labs == <<patcher, locator, copier, watcher, platform, reaper, managers, footprint>>

NoOp == [op |-> "none", who |-> "", at |-> 0, removed |-> {}, failed |-> {}]

\* ------------------------------------------------------------ Lock Registry
\* update_lock_file, first half: open(lock_file, "w") truncates the file; it
\* raises (and the write is skipped) when the directory does not exist
OpenLock(root, name) ==
    IF root[name].exists THEN [root EXCEPT ![name].lock = CorruptLock] ELSE root

\* WriteLock with the id of another manager in the record
WriteLockForeignId(root, name, t, id) ==
    IF root[name].exists THEN [root EXCEPT ![name].lock = ValidLock(t, DeadId)] ELSE root

\* update_lock_file, second half: json.dump and close put the whole record
\* on disk; a directory removed meanwhile is not recreated
WriteLock(root, name, t, id) ==
    IF root[name].exists THEN [root EXCEPT ![name].lock = ValidLock(t, id)] ELSE root


\* ------------------------------------------------------------ Reaper
\* IsStale with the boundary included
IsStaleInclusive(ts, current) ==
    ts <= current - CLEANUP_THRESHOLD_MINUTES * SecondsPerMinute

\* last_update < current_time - timedelta(minutes=CLEANUP_THRESHOLD_MINUTES)
IsStale(ts, current) ==
    ts < current - CLEANUP_THRESHOLD_MINUTES * SecondsPerMinute

\* _cleanup_old_directories: what it hands to remove_directory
OldVictims(root, prefix, current) ==
    {n \in DOMAIN root :
        /\ root[n].exists
        /\ StartsWith(n, prefix)
        /\ root[n].lock.kind = "valid"
        /\ IsStale(root[n].lock.ts, current)}


\* DeepVictims without the look at the marker
DeepVictimsAnyMarker(root, prefix) ==
    {n \in DOMAIN root : root[n].exists /\ StartsWith(n, prefix)}

\* DeepVictims that only knows the missing marker
DeepVictimsMissingOnly(root, prefix) ==
    {n \in DOMAIN root :
        /\ root[n].exists
        /\ StartsWith(n, prefix)
        /\ root[n].lock.kind = "missing"}

\* _deep_clean_directory: what it hands to remove_directory
DeepVictims(root, prefix) ==
    {n \in DOMAIN root :
        /\ root[n].exists
        /\ StartsWith(n, prefix)
        /\ root[n].lock.kind \in {"missing", "corrupt", "nots"}}

\* cleanup_mozilla_profiles(instance_id=None)
MozVictims(sys) == {n \in sys : StartsWith(n, MOZ_PROFILE_PREFIX)}

\* Python's "sub in item" on names
Contains(item, sub) ==
    \E k \in 0..(Len(item) - Len(sub)) : SubSeq(item, k + 1, k + Len(sub)) = sub

\* the identifiers _cleanup_orphaned_mozilla_profiles collects:
\* item[len(TEMP_DIR_PREFIX):] of every prefixed entry of the copies root
ActiveIds(root) ==
    {SubSeq(n, Len(TEMP_DIR_PREFIX) + 1, Len(n)) :
        n \in {m \in DOMAIN root : root[m].exists /\ StartsWith(m, TEMP_DIR_PREFIX)}}

\* _cleanup_orphaned_mozilla_profiles: scratch profiles naming no active id
OrphanVictims(sys, root) ==
    {n \in sys :
        /\ StartsWith(n, MOZ_PROFILE_PREFIX)
        /\ ~ \E id \in ActiveIds(root) : Contains(n, id)}

\* remove_directory / rmtree on every name of gone
RemoveAll(root, gone) ==
    [n \in DOMAIN root |-> IF n \in gone THEN Absent ELSE root[n]]

\* the file system the manager works on
Fs == [temp |-> tempRoot, prof |-> profRoot, sys |-> sysTmp]

SetFs(fs) ==
    /\ tempRoot' = fs.temp
    /\ profRoot' = fs.prof
    /\ sysTmp' = fs.sys


\* OldPass with the copies prefix used for the profiles root as well
OldPassOnePrefix(fs, current, stuck) ==
    [temp |-> RemoveAll(fs.temp, OldVictims(fs.temp, TEMP_DIR_PREFIX, current) \ stuck),
     prof |-> RemoveAll(fs.prof, OldVictims(fs.prof, TEMP_DIR_PREFIX, current) \ stuck),
     sys |-> fs.sys \ (MozVictims(fs.sys) \ stuck)]

\* cleanup_old_copies: stale sweep of both roots, then every scratch profile.
\* stuck are the entries whose removal fails after all fallbacks (which is
\* only logged).
OldPass(fs, current, stuck) ==
    [temp |-> RemoveAll(fs.temp, OldVictims(fs.temp, TEMP_DIR_PREFIX, current) \ stuck),
     prof |-> RemoveAll(fs.prof, OldVictims(fs.prof, PROFILE_DIR_PREFIX, current) \ stuck),
     sys |-> fs.sys \ (MozVictims(fs.sys) \ stuck)]

\* deep_clean: both roots, then the orphaned scratch profiles, judged against
\* the copies that are left
DeepPass(fs, stuck) ==
    LET t2 == RemoveAll(fs.temp, DeepVictims(fs.temp, TEMP_DIR_PREFIX) \ stuck)
    IN [temp |-> t2,
        prof |-> RemoveAll(fs.prof, DeepVictims(fs.prof, PROFILE_DIR_PREFIX) \ stuck),
        sys |-> fs.sys \ (OrphanVictims(fs.sys, t2) \ stuck)]

\* cleanup_specific_instance: the scratch profiles it collects
SpecificMozVictims(id, sys) == {n \in sys : StartsWith(n, MOZ_PROFILE_PREFIX)}


\* SpecificPass that forgets the profile directory
SpecificPassCopyOnly(fs, id, stuck) ==
    [temp |-> RemoveAll(fs.temp, {TempName(id)} \ stuck),
     prof |-> fs.prof,
     sys |-> fs.sys \ (SpecificMozVictims(id, fs.sys) \ stuck)]

\* cleanup_specific_instance
SpecificPass(fs, id, stuck) ==
    [temp |-> RemoveAll(fs.temp, {TempName(id)} \ stuck),
     prof |-> RemoveAll(fs.prof, {ProfileName(id)} \ stuck),
     sys |-> fs.sys \ (SpecificMozVictims(id, fs.sys) \ stuck)]

\* what cleanup_old_copies tries to remove
OldTargets(fs, current) ==
    OldVictims(fs.temp, TEMP_DIR_PREFIX, current)
        \cup OldVictims(fs.prof, PROFILE_DIR_PREFIX, current) \cup MozVictims(fs.sys)

\* what deep_clean tries to remove
DeepTargets(fs) ==
    DeepVictims(fs.temp, TEMP_DIR_PREFIX) \cup DeepVictims(fs.prof, PROFILE_DIR_PREFIX)
        \cup OrphanVictims(fs.sys, RemoveAll(fs.temp, DeepVictims(fs.temp, TEMP_DIR_PREFIX)))

\* what cleanup_specific_instance tries to remove
SpecificTargets(fs, id) ==
    {n \in {TempName(id)} : fs.temp[n].exists}
        \cup {n \in {ProfileName(id)} : fs.prof[n].exists}
        \cup SpecificMozVictims(id, fs.sys)

\* what a step took away, with the marker each directory had
Gone(before, after) ==
    {[root |-> "temp", name |-> n, lock |-> before.temp[n].lock] :
        n \in {m \in DOMAIN before.temp : before.temp[m].exists /\ ~after.temp[m].exists}}
    \cup {[root |-> "prof", name |-> n, lock |-> before.prof[n].lock] :
        n \in {m \in DOMAIN before.prof : before.prof[m].exists /\ ~after.prof[m].exists}}
    \cup {[root |-> "sys", name |-> n, lock |-> NoLock] : n \in before.sys \ after.sys}

\* the removals, among those an operation attempts, that may fail
Stuck(targets) == {S \in SUBSET targets : Cardinality(S) <= MaxFaults - faults}

\* a reaper operation op of instance who turns the file system into after,
\* with the removals of stuck failing
Reap(op, who, after, stuck) ==
    /\ SetFs(after)
    /\ faults' = faults + Cardinality(stuck)
    /\ last' = [op |-> op, who |-> who, at |-> now,
                removed |-> Gone(Fs, after),
                failed |-> stuck]
    /\ UNCHANGED labs

\* ------------------------------------------------------------ Firefox.__init__ of "a"
Stable == {"new", "running", "done", "failed", "reclaimed"}

NoError == [at |-> "", exc |-> ""]

\* the exception leaves __init__
Raise(i, step, exc) == error' = [error EXCEPT ![i] = [at |-> step, exc |-> exc]]

\* AfterFailure with the exception swallowed and construction carried on
AfterFailureGoesOn(step) ==
    CASE step = "locate" -> "copy"
      [] step = "copy" -> "copy_open"
      [] step = "patch" -> "start"
      [] OTHER -> "failed"

\* __init__ has no try around its steps: an exception of any of them ends it
AfterFailure(step) == "failed"

Goto(i, l) == pc' = [pc EXCEPT ![i] = l]

\* _purge_stale_instances, first call: cleanup_manager.cleanup_old_copies()
PurgeOld(i) ==
    /\ pc[i] = "new"
    /\ \E stuck \in Stuck(OldTargets(Fs, now)) :
        Reap("cleanup_old_copies", i, OldPass(Fs, now, stuck), stuck)
    /\ Goto(i, "purge_deep")
    /\ UNCHANGED <<now, profile, running, wpc, wake, hist, error, args>>

\* _purge_stale_instances, second call: cleanup_manager.deep_clean()
PurgeDeep(i) ==
    /\ pc[i] = "purge_deep"
    /\ \E stuck \in Stuck(DeepTargets(Fs)) :
        Reap("deep_clean", i, DeepPass(Fs, stuck), stuck)
    /\ Goto(i, "manager")
    /\ UNCHANGED <<now, profile, running, wpc, wake, hist, error, args>>

\* FirefoxManager(debug) and self.firefox_manager.cleanup_old_copies()
SweepOwn(i) ==
    /\ pc[i] = "manager"
    /\ \E stuck \in Stuck(OldTargets(Fs, now)) :
        Reap("cleanup_old_copies", i, OldPass(Fs, now, stuck), stuck)
    /\ Goto(i, "locate")
    /\ UNCHANGED <<now, profile, running, wpc, wake, hist, error, args>>

\* find_firefox_path: a path, or FirefoxNotFoundException
Locate(i) ==
    /\ pc[i] = "locate"
    /\ \E found \in BOOLEAN :
        IF found
        THEN Goto(i, "copy") /\ UNCHANGED error
        ELSE Goto(i, AfterFailure("locate")) /\ Raise(i, "locate", "FirefoxNotFoundException")
    /\ last' = NoOp
    /\ UNCHANGED <<faults, args, labs>>
    /\ UNCHANGED <<now, tempRoot, profRoot, sysTmp, profile, running, wpc, wake, hist>>

\* AfterFailedCopy with the partial copy taken away again
AfterFailedCopyRolledBack == Absent

\* the target after copytree failed part-way: what was copied stays (the
\* except clause only raises), and no lock file was written
AfterFailedCopy == Dir(NoLock)

\* create_firefox_copy up to the initial lock file: an existing target is
\* returned as it is; copytree creates the directory (without a marker) and
\* may fail part-way, which leaves the partial copy and raises
CopyTree(i) ==
    /\ pc[i] = "copy"
    /\ IF tempRoot[TempName(i)].exists
       THEN /\ Goto(i, "profile")
            /\ UNCHANGED <<tempRoot, error>>
       ELSE \E ok \in BOOLEAN :
                /\ tempRoot' = [tempRoot EXCEPT ![TempName(i)] =
                                    IF ok THEN Dir(NoLock) ELSE AfterFailedCopy]
                /\ IF ok
                   THEN Goto(i, "copy_open") /\ UNCHANGED error
                   ELSE /\ Goto(i, AfterFailure("copy"))
                        /\ Raise(i, "copy", "FirefoxCopyException")
    /\ last' = NoOp
    /\ UNCHANGED <<faults, args, labs>>
    /\ UNCHANGED <<now, profRoot, sysTmp, profile, running, wpc, wake, hist>>


\* AfterWrite with the cleanup entered right after the final write of the copy
AfterWriteReapFirst(i, phase) ==
    CASE phase = "copy" -> "profile"
      [] phase = "prof" -> "patch"
      [] phase = "fcopy" -> "cleanup"
      [] phase = "fprof" -> "client_quit"

\* where the main thread goes after a lock file update of the given phase
AfterWrite(i, phase) ==
    CASE phase = "copy" -> "profile"
      [] phase = "prof" -> "patch"
      [] phase = "fcopy" -> IF profile[i] = "set" /\ profRoot[ProfileName(i)].exists
                            THEN "fprof_open" ELSE "client_quit"
      [] phase = "fprof" -> "client_quit"

\* update_lock_file by the main thread on the working copy: open
MainOpenCopy(i) ==
    /\ pc[i] \in {"copy_open", "fcopy_open"}
    /\ tempRoot' = OpenLock(tempRoot, TempName(i))
    /\ LET phase == IF pc[i] = "copy_open" THEN "copy" ELSE "fcopy"
       IN /\ Goto(i, IF tempRoot[TempName(i)].exists
                     THEN phase \o "_write" ELSE AfterWrite(i, phase))
          /\ hist' = IF phase = "fcopy" THEN [hist EXCEPT ![i] = Append(@, "final_write")]
                     ELSE hist
    /\ last' = NoOp
    /\ UNCHANGED <<faults, error, args, labs>>
    /\ UNCHANGED <<now, profRoot, sysTmp, profile, running, wpc, wake>>

\* update_lock_file by the main thread on the working copy: dump and close
MainWriteCopy(i) ==
    /\ pc[i] \in {"copy_write", "fcopy_write"}
    /\ tempRoot' = WriteLock(tempRoot, TempName(i), now, i)
    /\ Goto(i, AfterWrite(i, IF pc[i] = "copy_write" THEN "copy" ELSE "fcopy"))
    /\ last' = NoOp
    /\ UNCHANGED <<faults, error, args, labs>>
    /\ UNCHANGED <<now, profRoot, sysTmp, profile, running, wpc, wake, hist>>

\* create_profile_path up to its lock file: makedirs, or the fallback to no
\* custom profile when it fails
MakeProfile(i) ==
    /\ pc[i] = "profile"
    /\ \E ok \in BOOLEAN :
        IF ok
        THEN /\ profRoot' = IF profRoot[ProfileName(i)].exists THEN profRoot
                            ELSE [profRoot EXCEPT ![ProfileName(i)] = Dir(NoLock)]
             /\ profile' = [profile EXCEPT ![i] = "set"]
             /\ Goto(i, "prof_open")
        ELSE /\ UNCHANGED <<profRoot, profile>>
             /\ Goto(i, "patch")
    /\ last' = NoOp
    /\ UNCHANGED <<faults, error, args, labs>>
    /\ UNCHANGED <<now, tempRoot, sysTmp, running, wpc, wake, hist>>

\* update_lock_file by the main thread on the profile directory: open
MainOpenProf(i) ==
    /\ pc[i] \in {"prof_open", "fprof_open"}
    /\ profRoot' = OpenLock(profRoot, ProfileName(i))
    /\ LET phase == IF pc[i] = "prof_open" THEN "prof" ELSE "fprof"
       IN Goto(i, IF profRoot[ProfileName(i)].exists
                  THEN phase \o "_write" ELSE AfterWrite(i, phase))
    /\ last' = NoOp
    /\ UNCHANGED <<faults, error, args, labs>>
    /\ UNCHANGED <<now, tempRoot, sysTmp, profile, running, wpc, wake, hist>>

\* update_lock_file by the main thread on the profile directory: dump and close
MainWriteProf(i) ==
    /\ pc[i] \in {"prof_write", "fprof_write"}
    /\ profRoot' = WriteLock(profRoot, ProfileName(i), now, i)
    /\ Goto(i, AfterWrite(i, IF pc[i] = "prof_write" THEN "prof" ELSE "fprof"))
    /\ last' = NoOp
    /\ UNCHANGED <<faults, error, args, labs>>
    /\ UNCHANGED <<now, tempRoot, sysTmp, profile, running, wpc, wake, hist>>

\* _patch_libxul_file: FirefoxPatchException when the file is not there (the
\* copy is gone) or cannot be written
Patch(i) ==
    /\ pc[i] = "patch"
    /\ \E ok \in BOOLEAN :
        IF ok /\ tempRoot[TempName(i)].exists
        THEN Goto(i, "start") /\ UNCHANGED error
        ELSE Goto(i, AfterFailure("patch")) /\ Raise(i, "patch", "FirefoxPatchException")
    /\ last' = NoOp
    /\ UNCHANGED <<faults, args, labs>>
    /\ UNCHANGED <<now, tempRoot, profRoot, sysTmp, profile, running, wpc, wake, hist>>

\* LockFileWatcher(...).start()
StartWatcher(i) ==
    /\ pc[i] = "start"
    /\ running' = [running EXCEPT ![i] = TRUE]
    /\ wpc' = [wpc EXCEPT ![i] = "check"]
    /\ Goto(i, "launch")
    /\ last' = NoOp
    /\ UNCHANGED <<faults, error, args, labs>>
    /\ UNCHANGED <<now, tempRoot, profRoot, sysTmp, profile, wake, hist>>

\* the system temp directory after the automation client was started: a
\* client without a custom profile makes its own scratch profile
Launched(sys, i, prof) == IF prof = "none" THEN sys \cup {ScratchName(i)} ELSE sys

\* ProfileArgs with the profile argument passed whatever create_profile_path
\* returned
ProfileArgsAlways(i, prof) == <<"-profile", ProfileName(i)>>

\* if self._profile_path: add_argument("-profile"); add_argument(path)
ProfileArgs(i, prof) == IF prof = "set" THEN <<"-profile", ProfileName(i)>> ELSE <<>>

\* what construction can still raise once the watcher runs: no executable in
\* the copy, or the client does not start
LaunchErrors == {"FirefoxNotFoundException", "WebDriverException"}

\* _find_platform_dependent_executable and WebDriver.__init__: either may raise
Launch(i) ==
    /\ pc[i] = "launch"
    /\ \/ /\ Goto(i, "running")
          /\ args' = [args EXCEPT ![i] = ProfileArgs(i, profile[i])]
          /\ sysTmp' = Launched(sysTmp, i, IF args'[i] = <<>> THEN "none" ELSE "set")
          /\ UNCHANGED error
       \/ /\ Goto(i, AfterFailure("launch"))
          /\ \E exc \in LaunchErrors : Raise(i, "launch", exc)
          /\ UNCHANGED <<sysTmp, args>>
    /\ last' = NoOp
    /\ UNCHANGED <<faults, labs>>
    /\ UNCHANGED <<now, tempRoot, profRoot, profile, running, wpc, wake, hist>>

\* ------------------------------------------------------------ Firefox.quit of "a"
Log(i, e) == hist' = [hist EXCEPT ![i] = Append(@, e)]

\* quit() is called; lock_watcher.stop() clears the running flag
QuitCall(i) ==
    /\ pc[i] = "running"
    /\ running' = [running EXCEPT ![i] = FALSE]
    /\ Log(i, "stop")
    /\ Goto(i, "join")
    /\ last' = NoOp
    /\ UNCHANGED <<faults, error, args, labs>>
    /\ UNCHANGED <<now, tempRoot, profRoot, sysTmp, profile, wpc, wake>>

\* hasattr(self, "_undetected_path"): the attribute is set when
\* create_firefox_copy has returned
HasUndetectedPath(i) == error[i].at \notin {"locate", "copy"}

\* hasattr(self, "lock_watcher"): the attribute is set right before start()
HasLockWatcher(i) == error[i].at \notin {"locate", "copy", "patch"}

\* the test of __del__: both attributes are there (firefox_manager is set
\* before anything can fail) and the working copy exists
DelEntersQuit(i) == HasUndetectedPath(i) /\ tempRoot[TempName(i)].exists

\* __del__ of an instance that was constructed: quit() is entered when the
\* working copy is (still) there, whether or not quit() ran before;
\* otherwise the destructor does nothing
Del(i) ==
    /\ pc[i] \in {"running", "done"}
    /\ IF DelEntersQuit(i)
       THEN /\ running' = [running EXCEPT ![i] = FALSE]
            /\ hist' = [hist EXCEPT ![i] = <<"stop">>]
            /\ Goto(i, "join")
       ELSE /\ Goto(i, "reclaimed")
            /\ UNCHANGED <<running, hist>>
    /\ last' = NoOp
    /\ UNCHANGED <<faults, error, args, labs>>
    /\ UNCHANGED <<now, tempRoot, profRoot, sysTmp, profile, wpc, wake>>

\* thread.join(timeout=2.0): returns when the thread has ended or after the
\* timeout, whichever comes first
Join(i) ==
    /\ pc[i] = "join"
    /\ Goto(i, "fcopy_open")
    /\ last' = NoOp
    /\ UNCHANGED <<faults, error, args, labs>>
    /\ UNCHANGED <<now, tempRoot, profRoot, sysTmp, profile, running, wpc, wake, hist>>


\* AfterClientQuit without the except and finally clauses
AfterClientQuitRaises(ok) == IF ok THEN "cleanup" ELSE "raised"

\* quit(): where control goes after super().quit() returned (ok) or raised:
\* the except clause logs, the finally clause runs either way
AfterClientQuit(ok) == "cleanup"

\* what quit() has done once super().quit() returned or raised
ClientQuitLog(ok) == IF ok THEN "client_quit" ELSE "client_quit_failed"

\* super().quit()
ClientQuit(i) ==
    /\ pc[i] = "client_quit"
    /\ \E ok \in BOOLEAN :
        /\ Log(i, ClientQuitLog(ok))
        /\ Goto(i, AfterClientQuit(ok))
    /\ last' = NoOp
    /\ UNCHANGED <<faults, error, args, labs>>
    /\ UNCHANGED <<now, tempRoot, profRoot, sysTmp, profile, running, wpc, wake>>

\* the finally clause of quit(): cleanup_specific_instance, service.stop()
QuitFinally(i) ==
    /\ pc[i] = "cleanup"
    /\ \E stuck \in Stuck(SpecificTargets(Fs, i)) :
        Reap("cleanup_specific_instance", i, SpecificPass(Fs, i, stuck), stuck)
    /\ Log(i, "reap")
    /\ Goto(i, "done")
    /\ UNCHANGED <<now, profile, running, wpc, wake, error, args>>

\* ------------------------------------------------------------ LockFileWatcher._update_loop of "a"
WGoto(i, l) == wpc' = [wpc EXCEPT ![i] = l]

\* time.sleep(LOCK_FILE_UPDATE_INTERVAL_SECONDS)
Sleep(i) ==
    /\ WGoto(i, "sleep")
    /\ wake' = [wake EXCEPT ![i] = now + LOCK_FILE_UPDATE_INTERVAL_SECONDS]

\* if self.profile_path and os.path.exists(self.profile_path)
HasProfile(i, prof) == profile[i] = "set" /\ prof[ProfileName(i)].exists

\* the profile half of one loop iteration is entered, or skipped
ToProfile(i) ==
    IF HasProfile(i, profRoot)
    THEN WGoto(i, "open_p") /\ UNCHANGED wake
    ELSE Sleep(i)

\* while self.running
WCheck(i) ==
    /\ wpc[i] = "check"
    /\ WGoto(i, IF running[i] THEN "open_c" ELSE "exit")
    /\ last' = NoOp
    /\ UNCHANGED <<faults, error, args, labs>>
    /\ UNCHANGED <<now, tempRoot, profRoot, sysTmp, pc, profile, running, wake, hist>>

\* update_lock_file(firefox_copy_path): open
WOpenCopy(i) ==
    /\ wpc[i] = "open_c"
    /\ tempRoot' = OpenLock(tempRoot, TempName(i))
    /\ IF tempRoot[TempName(i)].exists
       THEN WGoto(i, "write_c") /\ UNCHANGED wake
       ELSE ToProfile(i)
    /\ last' = NoOp
    /\ UNCHANGED <<faults, error, args, labs>>
    /\ UNCHANGED <<now, profRoot, sysTmp, pc, profile, running, hist>>

\* update_lock_file(firefox_copy_path): dump and close
WWriteCopy(i) ==
    /\ wpc[i] = "write_c"
    /\ tempRoot' = WriteLock(tempRoot, TempName(i), now, i)
    /\ ToProfile(i)
    /\ last' = NoOp
    /\ UNCHANGED <<faults, error, args, labs>>
    /\ UNCHANGED <<now, profRoot, sysTmp, pc, profile, running, hist>>

\* update_lock_file(profile_path): open
WOpenProf(i) ==
    /\ wpc[i] = "open_p"
    /\ profRoot' = OpenLock(profRoot, ProfileName(i))
    /\ IF profRoot[ProfileName(i)].exists
       THEN WGoto(i, "write_p") /\ UNCHANGED wake
       ELSE Sleep(i)
    /\ last' = NoOp
    /\ UNCHANGED <<faults, error, args, labs>>
    /\ UNCHANGED <<now, tempRoot, sysTmp, pc, profile, running, hist>>

\* update_lock_file(profile_path): dump and close
WWriteProf(i) ==
    /\ wpc[i] = "write_p"
    /\ profRoot' = WriteLock(profRoot, ProfileName(i), now, i)
    /\ Sleep(i)
    /\ last' = NoOp
    /\ UNCHANGED <<faults, error, args, labs>>
    /\ UNCHANGED <<now, tempRoot, sysTmp, pc, profile, running, hist>>

\* the sleep ends
WWake(i) ==
    /\ wpc[i] = "sleep"
    /\ now >= wake[i]
    /\ WGoto(i, "check")
    /\ last' = NoOp
    /\ UNCHANGED <<faults, error, args, labs>>
    /\ UNCHANGED <<now, tempRoot, profRoot, sysTmp, pc, profile, running, wake, hist>>

\* ------------------------------------------------------------ the peer "b"
\* both lock files of instance i rewritten (update_lock_file twice)
Refreshed(fs, i, withProfile) ==
    [fs EXCEPT !.temp = WriteLock(fs.temp, TempName(i), now, i),
               !.prof = IF withProfile /\ fs.prof[ProfileName(i)].exists
                        THEN WriteLock(fs.prof, ProfileName(i), now, i) ELSE fs.prof]

\* how far a construction gets
Outcomes == {"notfound", "copyfail", "patchfail", "launchfail", "ok"}

\* the exception each outcome stands for
PeerError(out) ==
    CASE out = "notfound" -> [at |-> "locate", exc |-> "FirefoxNotFoundException"]
      [] out = "copyfail" -> [at |-> "copy", exc |-> "FirefoxCopyException"]
      [] out = "patchfail" -> [at |-> "patch", exc |-> "FirefoxPatchException"]
      [] out = "launchfail" -> [at |-> "launch", exc |-> "WebDriverException"]
      [] OTHER -> NoError

\* Firefox.__init__ as a whole: startup purge, stale sweep, locate, copy,
\* profile, patch, watcher start with its first iteration, client launch
PeerInit(i) ==
    /\ pc[i] = "new"
    /\ \E stuck \in Stuck(OldTargets(Fs, now) \cup DeepTargets(Fs)),
          out \in Outcomes, profOk \in BOOLEAN :
        LET swept == OldPass(DeepPass(OldPass(Fs, now, stuck), stuck), now, stuck)
            copied == [swept EXCEPT !.temp[TempName(i)] =
                        IF out = "copyfail" THEN AfterFailedCopy ELSE Dir(ValidLock(now, i))]
            made == IF profOk
                    THEN [copied EXCEPT !.prof[ProfileName(i)] = Dir(ValidLock(now, i))]
                    ELSE copied
            after == CASE out = "notfound" -> swept
                       [] out = "copyfail" -> copied
                       [] out = "ok" -> [made EXCEPT !.sys =
                                            Launched(@, i, IF profOk THEN "set" ELSE "none")]
                       [] OTHER -> made
            profiled == profOk /\ out \in {"patchfail", "launchfail", "ok"}
            watching == out \in {"launchfail", "ok"}
        IN /\ Reap("construct", i, after, stuck)
           /\ Goto(i, IF out = "ok" THEN "running" ELSE "failed")
           /\ profile' = [profile EXCEPT ![i] = IF profiled THEN "set" ELSE "none"]
           /\ running' = [running EXCEPT ![i] = watching]
           /\ wpc' = [wpc EXCEPT ![i] = IF watching THEN "sleep" ELSE "idle"]
           /\ wake' = [wake EXCEPT ![i] =
                        IF watching THEN now + LOCK_FILE_UPDATE_INTERVAL_SECONDS ELSE @]
           /\ error' = [error EXCEPT ![i] = PeerError(out)]
           /\ args' = [args EXCEPT ![i] =
                        IF out = "ok" THEN ProfileArgs(i, IF profOk THEN "set" ELSE "none")
                        ELSE @]
    /\ UNCHANGED <<now, hist>>

\* one iteration of _update_loop as a whole, at the end of a sleep
PeerRefresh(i) ==
    /\ wpc[i] = "sleep"
    /\ now >= wake[i]
    /\ IF running[i]
       THEN /\ SetFs(Refreshed(Fs, i, profile[i] = "set"))
            /\ wake' = [wake EXCEPT ![i] = now + LOCK_FILE_UPDATE_INTERVAL_SECONDS]
            /\ UNCHANGED wpc
       ELSE /\ WGoto(i, "exit")
            /\ UNCHANGED <<tempRoot, profRoot, sysTmp, wake>>
    /\ last' = NoOp
    /\ UNCHANGED <<faults, error, args, labs>>
    /\ UNCHANGED <<now, pc, profile, running, hist>>

\* quit() as a whole: stop() with its final writes, super().quit(), the
\* finally clause
PeerQuit(i) ==
    /\ pc[i] = "running"
    /\ running' = [running EXCEPT ![i] = FALSE]
    /\ \E ok \in BOOLEAN, stuck \in Stuck(SpecificTargets(Fs, i)) :
        /\ Reap("cleanup_specific_instance", i,
                SpecificPass(Refreshed(Fs, i, profile[i] = "set"), i, stuck), stuck)
        /\ hist' = [hist EXCEPT ![i] = <<"stop", "final_write", ClientQuitLog(ok), "reap">>]
    /\ Goto(i, "done")
    /\ UNCHANGED <<now, profile, wpc, wake, error, args>>

\* what quit() as a whole leaves in the log of an instance with or without
\* a watcher
QuitLog(i, ok) ==
    IF HasLockWatcher(i) THEN <<"stop", "final_write", ClientQuitLog(ok), "reap">>
    ELSE <<ClientQuitLog(ok), "reap">>

\* __del__ of an instance whose construction has failed after
\* create_firefox_copy had returned (the object is given up when the exception
\* has left __init__; before that the destructor finds no _undetected_path
\* and changes nothing), as a whole: nothing when the working copy is not
\* there; otherwise quit(): stop() with its final writes if there is a
\* watcher, super().quit(), the finally clause.  The object is gone afterwards
DelFailed(i) ==
    /\ pc[i] = "failed"
    /\ HasUndetectedPath(i)
    /\ IF DelEntersQuit(i)
       THEN /\ running' = [running EXCEPT ![i] = FALSE]
            /\ \E ok \in BOOLEAN, stuck \in Stuck(SpecificTargets(Fs, i)) :
                /\ Reap("cleanup_specific_instance", i,
                        SpecificPass(IF HasLockWatcher(i)
                                     THEN Refreshed(Fs, i, profile[i] = "set")
                                     ELSE Fs, i, stuck), stuck)
                /\ hist' = [hist EXCEPT ![i] = QuitLog(i, ok)]
       ELSE /\ last' = NoOp
            /\ UNCHANGED <<tempRoot, profRoot, sysTmp, running, hist, faults, labs>>
    /\ Goto(i, "reclaimed")
    /\ UNCHANGED <<now, profile, wpc, wake, error, args>>

\* ------------------------------------------------------------ clock
\* one refresh interval passes while every thread is blocked
Tick ==
    /\ now < MaxNow
    /\ \A i \in Inst :
        /\ pc[i] \in Stable
        /\ wpc[i] \in {"idle", "sleep", "exit"}
        /\ wpc[i] = "sleep" => now < wake[i]
    /\ now' = now + LOCK_FILE_UPDATE_INTERVAL_SECONDS
    /\ last' = NoOp
    /\ UNCHANGED <<faults, error, args, labs>>
    /\ UNCHANGED <<tempRoot, profRoot, sysTmp, pc, profile, running, wpc, wake, hist>>

\* ------------------------------------------------------------ specification
\* outside their own specifications the isolated components stand still
PatcherIdle ==
    [pc |-> "idle", libxul_data |-> <<>>, original |-> <<>>, mode |-> "rw",
     random_bytes |-> <<>>, os_name |-> "posix", places |-> {}, found |-> "none",
     promoted |-> FALSE, exc |-> ""]

LocatorIdle ==
    [pc |-> "idle", custom_path |-> "", lookup_paths |-> <<>>, on_disk |-> {},
     result |-> [kind |-> "none", path |-> "", checked_paths |-> <<>>]]

\* a working directory with what was copied into it
NoTarget == [exists |-> FALSE, content |-> "none", lock |-> NoLock]

CopierIdle ==
    [pc |-> "idle", calls |-> 0, target |-> NoTarget, before |-> NoTarget,
     ret |-> "none", io |-> FALSE]

\* a LockFileWatcher nobody made
WatcherIdle ==
    [pc |-> "idle", thread |-> "none", running |-> FALSE, clock |-> 0, wake |-> 0,
     waited |-> 0, copy |-> Absent, prof |-> Absent, profile_path |-> FALSE,
     stops |-> 0, lost |-> FALSE]

\* a platform nobody asked for
PlatformIdle ==
    [pc |-> "idle", system |-> "", in_copy |-> {}, result |-> [kind |-> "none"],
     binary_location |-> [kind |-> "none"]]

\* sweeps nobody runs
ReaperIdle ==
    [pc |-> "idle", phase |-> 0, dirs |-> <<>>, todo |-> <<>>, listed |-> {},
     visited |-> {}, moves |-> 0, logged |-> {}]

\* sessions nobody began
ManagersIdle == [id |-> <<>>, pc |-> <<>>, temp |-> <<>>, prof |-> <<>>]

\* an instance nobody made
FootprintIdle ==
    [pc |-> "idle", system |-> "", source |-> <<>>, files |-> {}, entries |-> {},
     firefox_path |-> <<>>, undetected_path |-> <<>>, profile_path |-> <<>>,
     binary_location |-> <<>>, written |-> {}, removed |-> {}]

\* ages (minutes) of the markers a crashed instance left behind
InitAges == {19, 20, 21}

Min(S) == CHOOSE x \in S : \A y \in S : x <= y

InitLocks ==
    {NoLock, CorruptLock, NoTsLock, BadTsLock}
        \cup {ValidLock(InitNow - age * SecondsPerMinute, DeadId) : age \in InitAges}
        \cup {NoIdLock(InitNow - Min(InitAges) * SecondsPerMinute)}

\* the unrelated siblings: one without a marker, one with a stale marker
OtherTempDir == Dir(NoLock)

OtherProfDir == Dir(ValidLock(SecondsPerMinute, "y"))

MainInit ==
    /\ now = InitNow
    /\ \E l \in InitLocks :
        /\ tempRoot = [n \in TempNames |->
                        IF n = OtherTemp THEN OtherTempDir
                        ELSE IF n = TempName(DeadId) THEN Dir(l) ELSE Absent]
        /\ profRoot = [n \in ProfNames |->
                        IF n = OtherProf THEN OtherProfDir
                        ELSE IF n = ProfileName(DeadId) THEN Dir(l) ELSE Absent]
    /\ sysTmp = {OtherSys, ForeignScratch, OwnedScratch}
    /\ pc = [i \in Inst |-> "new"]
    /\ profile = [i \in Inst |-> "none"]
    /\ running = [i \in Inst |-> FALSE]
    /\ wpc = [i \in Inst |-> "idle"]
    /\ wake = [i \in Inst |-> 0]
    /\ hist = [i \in Inst |-> <<>>]
    /\ last = NoOp
    /\ faults = 0
    /\ error = [i \in Inst |-> NoError]
    /\ args = [i \in Inst |-> <<>>]

Init ==
    /\ MainInit
    /\ patcher = PatcherIdle
    /\ locator = LocatorIdle
    /\ copier = CopierIdle
    /\ watcher = WatcherIdle
    /\ platform = PlatformIdle
    /\ reaper = ReaperIdle
    /\ managers = ManagersIdle
    /\ footprint = FootprintIdle

Next ==
    \/ PurgeOld("a")
    \/ PurgeDeep("a")
    \/ SweepOwn("a")
    \/ Locate("a")
    \/ CopyTree("a")
    \/ MainOpenCopy("a")
    \/ MainWriteCopy("a")
    \/ MakeProfile("a")
    \/ MainOpenProf("a")
    \/ MainWriteProf("a")
    \/ Patch("a")
    \/ StartWatcher("a")
    \/ Launch("a")
    \/ QuitCall("a")
    \/ Del("a")
    \/ Join("a")
    \/ ClientQuit("a")
    \/ QuitFinally("a")
    \/ WCheck("a")
    \/ WOpenCopy("a")
    \/ WWriteCopy("a")
    \/ WOpenProf("a")
    \/ WWriteProf("a")
    \/ WWake("a")
    \/ PeerInit("b")
    \/ PeerRefresh("b")
    \/ PeerQuit("b")
    \/ Tick

Spec == Init /\ [][Next]_vars

\* the same with the object of a failed construction given up at some time
\* after the exception has left __init__, so that its destructor runs
NextAbandoned ==
    \/ Next
    \/ DelFailed("a")

SpecAbandoned == Init /\ [][NextAbandoned]_vars

\* ------------------------------------------------------------ Binary Patcher alone
mainvars == <<now, tempRoot, profRoot, sysTmp, pc, profile, running, wpc, wake, hist, last,
              faults, error, args>>

\* the instances stay unconstructed while a component is exercised alone
Parked == MainInit /\ tempRoot[TempName(DeadId)].lock = NoLock

\* TO_REPLACE_STRING = b"webdriver"
TO_REPLACE_STRING == <<"w", "e", "b", "d", "r", "i", "v", "e", "r">>

\* string.ascii_letters + string.digits
Alphanumeric ==
    {"a", "b", "c", "d", "e", "f", "g", "h", "i", "j", "k", "l", "m", "n", "o", "p", "q",
     "r", "s", "t", "u", "v", "w", "x", "y", "z", "A", "B", "C", "D", "E", "F", "G", "H",
     "I", "J", "K", "L", "M", "N", "O", "P", "Q", "R", "S", "T", "U", "V", "W", "X", "Y",
     "Z", "0", "1", "2", "3", "4", "5", "6", "7", "8", "9"}

\* generate_random_string(length) may return any string of that many
\* characters of Alphanumeric; these are the ones drawn here
RandomDraws ==
    {<<"a", "B", "3", "x", "Y", "9", "k", "L", "m">>,
     <<"d", "r", "i", "v", "e", "r", "A", "B", "1">>,
     <<"w", "e", "b", "d", "r", "i", "v", "e", "r">>}

generate_random_string(length) ==
    {r \in RandomDraws : Len(r) = length /\ \A k \in 1..Len(r) : r[k] \in Alphanumeric}

\* pieces the files are made of: the marker, a beginning of it, other bytes
Chunks == {TO_REPLACE_STRING, <<"w", "e", "b">>, <<".", "x">>}

MaxChunks == 3

RECURSIVE Files(_)
Files(n) ==
    IF n = 0 THEN {<<>>}
    ELSE Files(n - 1) \cup {f \o c : f \in Files(n - 1), c \in Chunks}

\* rw: readable and writable; ro: not writable, chmod helps; locked: not
\* writable, chmod fails; wo: writable, not readable
Modes == {"rw", "ro", "locked", "wo"}

\* bytes.replace(old, new) from position k on: left to right, occurrences
\* that do not overlap
RECURSIVE ReplaceFrom(_, _, _, _)
ReplaceFrom(data, k, old, new) ==
    IF k > Len(data) THEN <<>>
    ELSE IF k + Len(old) - 1 <= Len(data) /\ SubSeq(data, k, k + Len(old) - 1) = old
         THEN new \o ReplaceFrom(data, k + Len(old), old, new)
         ELSE <<data[k]>> \o ReplaceFrom(data, k + 1, old, new)

Replace(data, old, new) == ReplaceFrom(data, 1, old, new)

\* MarkerFound with the test for the marker left out
MarkerFoundAlways(data) == TRUE

\* not (TO_REPLACE_STRING not in libxul_data)
MarkerFound(data) == Contains(data, TO_REPLACE_STRING)

PatcherGoto(l) == [patcher EXCEPT !.pc = l]

\* PatchError with the cause let through as it is
PatchErrorUnwrapped(cause) == cause

\* except PermissionError / except Exception: whatever the cause, what leaves
\* _patch_libxul_file is a FirefoxPatchException
PatchError(cause) == "FirefoxPatchException"

\* the patcher ends with an exception
PatcherRaise(cause) == [patcher EXCEPT !.pc = "raised", !.exc = PatchError(cause)]

\* where the xul file may be in the working copy: at its top, deeper, both
\* or nowhere
Places == {"child", "nested"}

\* LocateXul with the recursive search made on every platform
LocateXulEverywhere(places, os_name) ==
    IF "child" \in places THEN "child"
    ELSE IF "nested" \in places THEN "nested"
    ELSE "none"

\* the path _patch_libxul_file settles on: the direct child; when that does
\* not exist and os.name == "nt", the first match of os.walk
LocateXul(places, os_name) ==
    IF "child" \in places THEN "child"
    ELSE IF os_name = "nt" /\ "nested" \in places THEN "nested"
    ELSE "none"

\* the search for the file; FirefoxPatchException when the path it settled
\* on does not exist
PatchLookup ==
    /\ patcher.pc = "lookup"
    /\ LET path == LocateXul(patcher.places, patcher.os_name)
       IN patcher' = IF path = "none" THEN PatcherRaise("FileNotFoundError")
                     ELSE [patcher EXCEPT !.pc = "access", !.found = path]
    /\ UNCHANGED <<mainvars, locator, copier, watcher, platform, reaper, managers, footprint>>

\* os.access(libxul_path, os.W_OK), and os.chmod when it says no
PatchAccess ==
    /\ patcher.pc = "access"
    /\ patcher' = CASE patcher.mode = "ro" ->
                            [patcher EXCEPT !.pc = "read", !.mode = "rw", !.promoted = TRUE]
                    [] patcher.mode = "locked" -> PatcherRaise("PermissionError")
                    [] OTHER -> PatcherGoto("read")
    /\ UNCHANGED <<mainvars, locator, copier, watcher, platform, reaper, managers, footprint>>

\* the file is read; without the marker the function returns
PatchRead ==
    /\ patcher.pc = "read"
    /\ patcher' = IF patcher.mode = "wo" THEN PatcherRaise("PermissionError")
                  ELSE IF MarkerFound(patcher.libxul_data) THEN PatcherGoto("replace")
                  ELSE PatcherGoto("skipped")
    /\ UNCHANGED <<mainvars, locator, copier, watcher, platform, reaper, managers, footprint>>

\* a random string is drawn, every occurrence replaced, the file written;
\* open(libxul_path, "wb") or the write may fail, before or after the file
\* was truncated
PatchWrite ==
    /\ patcher.pc = "replace"
    /\ \E r \in generate_random_string(Len(TO_REPLACE_STRING)) :
        \/ patcher' = [patcher EXCEPT !.pc = "patched", !.random_bytes = r,
                          !.libxul_data = Replace(@, TO_REPLACE_STRING, r)]
        \/ \E left \in {patcher.libxul_data, <<>>}, cause \in {"PermissionError", "OSError"} :
            patcher' = [PatcherRaise(cause) EXCEPT !.random_bytes = r, !.libxul_data = left]
    /\ UNCHANGED <<mainvars, locator, copier, watcher, platform, reaper, managers, footprint>>

InitPatcher ==
    /\ Parked
    /\ \E f \in Files(MaxChunks), m \in Modes, os \in {"nt", "posix"}, pl \in SUBSET Places :
        patcher = [PatcherIdle EXCEPT !.pc = "lookup", !.libxul_data = f, !.original = f,
                                      !.mode = m, !.os_name = os, !.places = pl]
    /\ locator = LocatorIdle
    /\ copier = CopierIdle
    /\ watcher = WatcherIdle
    /\ platform = PlatformIdle
    /\ reaper = ReaperIdle
    /\ managers = ManagersIdle
    /\ footprint = FootprintIdle

NextPatcher ==
    \/ PatchLookup
    \/ PatchAccess
    \/ PatchRead
    \/ PatchWrite

SpecPatcher == InitPatcher /\ [][NextPatcher]_vars

\* ------------------------------------------------------------ Installation Locator alone
\* the override nobody installed, and the places of PlatformConfig.firefox_paths
CustomPath == "/home/user/firefox"

CandidatePaths == {"/usr/lib/firefox", "/opt/firefox"}

\* None and "" are both false in "if custom_path" and "if path"
NoPath == ""

MaxLookup == 2

RECURSIVE Lists(_, _)
Lists(S, n) ==
    IF n = 0 THEN {<<>>}
    ELSE Lists(S, n - 1) \cup {Append(l, x) : l \in Lists(S, n - 1), x \in S}

\* [p for p in lookup_paths if p]
RECURSIVE Truthy(_)
Truthy(paths) ==
    IF paths = <<>> THEN <<>>
    ELSE IF Head(paths) # NoPath THEN <<Head(paths)>> \o Truthy(Tail(paths))
    ELSE Truthy(Tail(paths))

\* for path in lookup_paths: if path and os.path.exists(path): return path
RECURSIVE FirstExisting(_, _)
FirstExisting(paths, on_disk) ==
    IF paths = <<>> THEN NoPath
    ELSE IF Head(paths) # NoPath /\ Head(paths) \in on_disk THEN Head(paths)
    ELSE FirstExisting(Tail(paths), on_disk)

Returned(path) == [kind |-> "path", path |-> path, checked_paths |-> <<>>]

NotFound(custom_path, lookup_paths) ==
    [kind |-> "FirefoxNotFoundException", path |-> NoPath,
     checked_paths |-> (IF custom_path # NoPath THEN <<custom_path>> ELSE <<>>)
                            \o Truthy(lookup_paths)]

\* find_firefox_path with the candidates tried before the override
FindCandidatesFirst(custom_path, lookup_paths, on_disk) ==
    IF FirstExisting(lookup_paths, on_disk) # NoPath
    THEN Returned(FirstExisting(lookup_paths, on_disk))
    ELSE IF custom_path # NoPath /\ custom_path \in on_disk THEN Returned(custom_path)
    ELSE NotFound(custom_path, lookup_paths)

find_firefox_path(custom_path, lookup_paths, on_disk) ==
    IF custom_path # NoPath /\ custom_path \in on_disk THEN Returned(custom_path)
    ELSE IF FirstExisting(lookup_paths, on_disk) # NoPath
    THEN Returned(FirstExisting(lookup_paths, on_disk))
    ELSE NotFound(custom_path, lookup_paths)

LocateCall ==
    /\ locator.pc = "call"
    /\ locator' = [locator EXCEPT
                    !.pc = "ended",
                    !.result = find_firefox_path(locator.custom_path, locator.lookup_paths,
                                                 locator.on_disk)]
    /\ UNCHANGED <<mainvars, patcher, copier, watcher, platform, reaper, managers, footprint>>

InitLocator ==
    /\ Parked
    /\ \E c \in {NoPath, CustomPath} \cup CandidatePaths,
          l \in Lists(CandidatePaths \cup {NoPath}, MaxLookup),
          d \in SUBSET (CandidatePaths \cup {CustomPath}) :
        locator = [LocatorIdle EXCEPT !.pc = "call", !.custom_path = c,
                                      !.lookup_paths = l, !.on_disk = d]
    /\ patcher = PatcherIdle
    /\ copier = CopierIdle
    /\ watcher = WatcherIdle
    /\ platform = PlatformIdle
    /\ reaper = ReaperIdle
    /\ managers = ManagersIdle
    /\ footprint = FootprintIdle

NextLocator == LocateCall

SpecLocator == InitLocator /\ [][NextLocator]_vars

\* ------------------------------------------------------------ Instance Copier alone
\* one FirefoxManager (instance id "a") whose create_firefox_copy is called
\* again and again with the same source; copier.calls also serves as the
\* clock, so that a rewritten marker shows
MaxCalls == 5

\* create_firefox_copy with the test for an existing target left out
CreateCopyAlways(target, t) ==
    {[target |-> [exists |-> TRUE, content |-> "complete", lock |-> ValidLock(t, "a")],
      ret |-> "path", io |-> TRUE]}

\* create_firefox_copy on a target, at time t: every outcome it can have.
\* An existing target is returned as it is; otherwise copytree either
\* completes, and the initial marker is written (or its write fails, which
\* update_lock_file only logs), or fails part-way and FirefoxCopyException
\* is raised.
create_firefox_copy(target, t) ==
    IF target.exists
    THEN {[target |-> target, ret |-> "path", io |-> FALSE]}
    ELSE {[target |-> [exists |-> TRUE, content |-> "complete", lock |-> l],
           ret |-> "path", io |-> TRUE] : l \in {ValidLock(t, "a"), NoLock}}
         \cup {[target |-> [exists |-> TRUE, content |-> "partial", lock |-> NoLock],
                ret |-> "FirefoxCopyException", io |-> TRUE]}

CopyCall ==
    /\ copier.pc = "ready"
    /\ copier.calls < MaxCalls
    /\ \E out \in create_firefox_copy(copier.target, copier.calls + 1) :
        copier' = [copier EXCEPT !.calls = @ + 1, !.before = copier.target,
                                 !.target = out.target, !.ret = out.ret, !.io = out.io]
    /\ UNCHANGED <<mainvars, patcher, locator, watcher, platform, reaper, managers, footprint>>

\* remove_directory on the target between two calls (a sweep, or
\* cleanup_specific_instance)
CopyReaped ==
    /\ copier.pc = "ready"
    /\ copier.target.exists
    /\ copier.ret # "none"
    /\ copier' = [copier EXCEPT !.target = NoTarget, !.ret = "none", !.io = FALSE]
    /\ UNCHANGED <<mainvars, patcher, locator, watcher, platform, reaper, managers, footprint>>

\* update_lock_file on the target between two calls (the refresher)
CopyRefreshed ==
    /\ copier.pc = "ready"
    /\ copier.target.exists
    /\ copier.ret # "none"
    /\ copier.target.lock # ValidLock(copier.calls, "a")
    /\ copier' = [copier EXCEPT !.target.lock = ValidLock(copier.calls, "a"),
                                 !.ret = "none", !.io = FALSE]
    /\ UNCHANGED <<mainvars, patcher, locator, watcher, platform, reaper, managers, footprint>>

\* what the first call may find: nothing, or a directory of that name
InitTargets ==
    {NoTarget}
        \cup {[exists |-> TRUE, content |-> c, lock |-> l] :
                c \in {"complete", "partial"}, l \in {NoLock, ValidLock(0, "a")}}

InitCopier ==
    /\ Parked
    /\ \E d \in InitTargets : copier = [CopierIdle EXCEPT !.pc = "ready", !.target = d]
    /\ patcher = PatcherIdle
    /\ locator = LocatorIdle
    /\ watcher = WatcherIdle
    /\ platform = PlatformIdle
    /\ reaper = ReaperIdle
    /\ managers = ManagersIdle
    /\ footprint = FootprintIdle

NextCopier ==
    \/ CopyCall
    \/ CopyReaped
    \/ CopyRefreshed

SpecCopier == InitCopier /\ [][NextCopier]_vars

\* ------------------------------------------------------------ LockFileWatcher alone
\* One watcher of instance "a" with its thread and its two directories, and a
\* caller that calls stop() again and again.  watcher.clock counts seconds;
\* the thread and the caller take no time except where they wait.
\* sleeps of the loop the clock may run through
MaxSleeps == 2

\* calls of stop()
MaxStops == 3

\* thread.join(timeout=2.0)
JoinTimeout == 2

WatchEnd == MaxSleeps * LOCK_FILE_UPDATE_INTERVAL_SECONDS

\* update_lock_file with the directory made when it is not there
UpdateLockFileMakesDir(d, t) == {[dir |-> Dir(ValidLock(t, "a")), ok |-> TRUE]}

\* update_lock_file on directory d at time t: every outcome it can have.
\* open(lock_file, "w") fails when the directory is not there, and may fail
\* when it is; json.dump may fail after the file was truncated.  The except
\* clause logs the failure, the directory stays as it then is.
update_lock_file(d, t) ==
    IF ~d.exists THEN {[dir |-> d, ok |-> FALSE]}
    ELSE {[dir |-> Dir(ValidLock(t, "a")), ok |-> TRUE],
          [dir |-> d, ok |-> FALSE],
          [dir |-> Dir(CorruptLock), ok |-> FALSE]}

\* AfterUpdate with a failed write ending the loop
AfterUpdateDies(ok, next) == IF ok THEN next ELSE "crashed"

\* where the thread goes after update_lock_file returned: a failure was
\* caught inside it, and the loop has its own except clause besides
AfterUpdate(ok, next) == next

\* AfterFinal with a failed final write leaving stop() as an exception
AfterFinalRaises(ok, next) == IF ok THEN next ELSE "raised"

\* where stop() goes after one of its final writes: a failure was caught
\* inside update_lock_file, and stop() has its own except clause besides
AfterFinal(ok, next) == next

\* join without a timeout
JoinNeverExpires(waited) == FALSE

\* the timeout of thread.join(timeout=2.0) has run out
JoinExpired(waited) == waited >= JoinTimeout

\* thread.is_alive(); a thread that was never started is not there at all
Alive(thread) == thread \notin {"none", "exit", "crashed"}

\* if self.profile_path and os.path.exists(self.profile_path)
WatchesProfile == watcher.profile_path /\ watcher.prof.exists

\* the thread moves on; time.sleep sets the end of the sleep
ThreadTo(w, l) ==
    [w EXCEPT !.thread = l,
              !.wake = IF l = "sleep" THEN w.clock + LOCK_FILE_UPDATE_INTERVAL_SECONDS ELSE @]

\* LoopContinues with a loop that never looks at the flag
LoopIgnoresFlag(flag) == TRUE

\* while self.running: the test the loop makes once a round, before the writes
LoopContinues(flag) == flag

\* the thread at the head of its loop: another round, or the end of the run
\* function and with it of the thread
WatchCheck ==
    /\ watcher.thread = "check"
    /\ watcher' = ThreadTo(watcher, IF LoopContinues(watcher.running) THEN "update_c"
                                    ELSE "exit")
    /\ UNCHANGED <<mainvars, patcher, locator, copier, platform, reaper, managers, footprint>>

\* the loop's update_lock_file(self.firefox_copy_path)
WatchUpdateCopy ==
    /\ watcher.thread = "update_c"
    /\ \E out \in update_lock_file(watcher.copy, watcher.clock) :
        watcher' = ThreadTo([watcher EXCEPT !.copy = out.dir, !.lost = ~out.ok],
                            AfterUpdate(out.ok, IF WatchesProfile THEN "update_p"
                                                ELSE "sleep"))
    /\ UNCHANGED <<mainvars, patcher, locator, copier, platform, reaper, managers, footprint>>

\* the loop's update_lock_file(self.profile_path)
WatchUpdateProf ==
    /\ watcher.thread = "update_p"
    /\ \E out \in update_lock_file(watcher.prof, watcher.clock) :
        watcher' = ThreadTo([watcher EXCEPT !.prof = out.dir, !.lost = ~out.ok],
                            AfterUpdate(out.ok, "sleep"))
    /\ UNCHANGED <<mainvars, patcher, locator, copier, platform, reaper, managers, footprint>>

\* time.sleep(LOCK_FILE_UPDATE_INTERVAL_SECONDS) returns
WatchWake ==
    /\ watcher.thread = "sleep"
    /\ watcher.clock >= watcher.wake
    /\ watcher' = ThreadTo(watcher, "check")
    /\ UNCHANGED <<mainvars, patcher, locator, copier, platform, reaper, managers, footprint>>

\* stop() is called: the flag is cleared, and the thread joined if there is
\* one and it is alive
StopCall ==
    /\ watcher.pc = "ready"
    /\ watcher.stops < MaxStops
    /\ watcher.clock <= WatchEnd
    /\ watcher' = [watcher EXCEPT !.running = FALSE, !.waited = 0,
                                  !.pc = IF Alive(watcher.thread) THEN "join"
                                         ELSE "final_c"]
    /\ UNCHANGED <<mainvars, patcher, locator, copier, platform, reaper, managers, footprint>>

\* thread.join(timeout=2.0) returns: the thread has ended, or the timeout
\* has run out
JoinReturn ==
    /\ watcher.pc = "join"
    /\ ~Alive(watcher.thread) \/ JoinExpired(watcher.waited)
    /\ watcher' = [watcher EXCEPT !.pc = "final_c"]
    /\ UNCHANGED <<mainvars, patcher, locator, copier, platform, reaper, managers, footprint>>

\* stop() returns
StopReturns(w) == [w EXCEPT !.pc = "ready", !.stops = @ + 1]

\* the final update_lock_file(self.firefox_copy_path) of stop()
FinalCopy ==
    /\ watcher.pc = "final_c"
    /\ \E out \in update_lock_file(watcher.copy, watcher.clock) :
        LET w == [watcher EXCEPT !.copy = out.dir]
            next == AfterFinal(out.ok, IF WatchesProfile THEN "final_p" ELSE "ready")
        IN watcher' = IF next = "ready" THEN StopReturns(w) ELSE [w EXCEPT !.pc = next]
    /\ UNCHANGED <<mainvars, patcher, locator, copier, platform, reaper, managers, footprint>>

\* the final update_lock_file(self.profile_path) of stop()
FinalProf ==
    /\ watcher.pc = "final_p"
    /\ \E out \in update_lock_file(watcher.prof, watcher.clock) :
        LET w == [watcher EXCEPT !.prof = out.dir]
            next == AfterFinal(out.ok, "ready")
        IN watcher' = IF next = "ready" THEN StopReturns(w) ELSE [w EXCEPT !.pc = next]
    /\ UNCHANGED <<mainvars, patcher, locator, copier, platform, reaper, managers, footprint>>

\* both directories are removed between two calls (cleanup_specific_instance,
\* or a sweep)
WatchReaped ==
    /\ watcher.pc = "ready"
    /\ watcher.copy.exists \/ watcher.prof.exists
    /\ watcher' = [watcher EXCEPT !.copy = Absent, !.prof = Absent]
    /\ UNCHANGED <<mainvars, patcher, locator, copier, platform, reaper, managers, footprint>>

\* a second passes while the caller is blocked in join
WatchWait ==
    /\ watcher.pc = "join"
    /\ Alive(watcher.thread)
    /\ ~JoinExpired(watcher.waited)
    /\ watcher.thread = "sleep" => watcher.clock < watcher.wake
    /\ watcher' = [watcher EXCEPT !.clock = @ + 1, !.waited = @ + 1]
    /\ UNCHANGED <<mainvars, patcher, locator, copier, platform, reaper, managers, footprint>>

\* the latest end of a sleep that began before the last stop() returned
LastWake == WatchEnd + LOCK_FILE_UPDATE_INTERVAL_SECONDS + MaxStops * JoinTimeout

\* time passes while the thread sleeps and nobody is in stop(): up to the
\* last second of the sleep, or to its end.  The clock runs through MaxSleeps
\* sleeps of a watcher that is not stopped, and through the sleep a stopped
\* one is in
WatchPass ==
    /\ watcher.pc = "ready"
    /\ watcher.thread = "sleep"
    /\ watcher.clock < watcher.wake
    /\ watcher.wake <= (IF watcher.running THEN WatchEnd ELSE LastWake)
    /\ \E t \in {watcher.wake - 1, watcher.wake} :
        /\ t > watcher.clock
        /\ watcher' = [watcher EXCEPT !.clock = t]
    /\ UNCHANGED <<mainvars, patcher, locator, copier, platform, reaper, managers, footprint>>

\* a watcher that was started (start() sets the flag and starts the thread)
\* or only constructed, with or without a profile directory
InitWatcher ==
    /\ Parked
    /\ \E started \in BOOLEAN, pp \in BOOLEAN :
        watcher = [WatcherIdle EXCEPT
                    !.pc = "ready",
                    !.thread = IF started THEN "check" ELSE "none",
                    !.running = started,
                    !.copy = Dir(ValidLock(0, "a")),
                    !.prof = IF pp THEN Dir(ValidLock(0, "a")) ELSE Absent,
                    !.profile_path = pp]
    /\ patcher = PatcherIdle
    /\ locator = LocatorIdle
    /\ copier = CopierIdle
    /\ platform = PlatformIdle
    /\ reaper = ReaperIdle
    /\ managers = ManagersIdle
    /\ footprint = FootprintIdle

NextWatcher ==
    \/ WatchCheck
    \/ WatchUpdateCopy
    \/ WatchUpdateProf
    \/ WatchWake
    \/ StopCall
    \/ JoinReturn
    \/ FinalCopy
    \/ FinalProf
    \/ WatchReaped
    \/ WatchWait
    \/ WatchPass

SpecWatcher == InitWatcher /\ [][NextWatcher]_vars

\* a thread that can take a step takes it, and time does not stand still
FairWatcher == SpecWatcher /\ WF_vars(NextWatcher)

\* ------------------------------------------------------------ PlatformConfig alone
\* constants.py: the three configurations (paths with the environment
\* variables and the home directory left unexpanded)
WINDOWS ==
    [firefox_execs |-> <<"firefox.exe">>,
     firefox_paths |-> <<"C:\\Program Files\\Mozilla Firefox",
                         "C:\\Program Files (x86)\\Mozilla Firefox",
                         "%LOCALAPPDATA%\\Mozilla Firefox",
                         "%PROGRAMFILES%\\Mozilla Firefox",
                         "%PROGRAMFILES(X86)%\\Mozilla Firefox">>,
     xul |-> "xul.dll"]

MACOS ==
    [firefox_execs |-> <<"firefox", "Firefox", "firefox-bin">>,
     firefox_paths |-> <<"/Applications/Firefox.app/Contents/MacOS",
                         "/Applications/Firefox Developer Edition.app/Contents/MacOS",
                         "/Applications/Firefox Nightly.app/Contents/MacOS",
                         "~/Applications/Firefox.app/Contents/MacOS",
                         "~/Applications/Firefox Developer Edition.app/Contents/MacOS",
                         "~/Applications/Firefox Nightly.app/Contents/MacOS",
                         "/opt/homebrew/bin", "/usr/local/bin", "/opt/local/bin">>,
     xul |-> "XUL"]

LINUX ==
    [firefox_execs |-> <<"firefox", "firefox-bin", "firefox-esr">>,
     firefox_paths |-> <<"/usr/lib/firefox", "/usr/lib/firefox-esr",
                         "/usr/lib/firefox-developer-edition", "/usr/lib/firefox-nightly",
                         "/usr/lib/firefox-trunk", "/usr/lib/firefox-beta",
                         "/snap/firefox/current/usr/lib/firefox", "/opt/firefox",
                         "/usr/lib64/firefox", "/usr/local/firefox",
                         "/usr/lib/x86_64-linux-gnu/firefox",
                         "~/.local/share/flatpak/app/org.mozilla.firefox",
                         "/var/lib/flatpak/app/org.mozilla.firefox">>,
     xul |-> "libxul.so"]

PLATFORM_CONFIGS ==
    [system \in {"Windows", "Darwin", "Linux"} |->
        CASE system = "Windows" -> WINDOWS
          [] system = "Darwin" -> MACOS
          [] system = "Linux" -> LINUX]

\* what platform.system() may return: the three names, other systems, the
\* empty string of an unknown system, and names that differ from a supported
\* one in case or length only
Systems ==
    {"Windows", "Darwin", "Linux", "Java", "FreeBSD", "", "linux", "Win", "Linux2"}

\* get_platform_config with Linux taken for every system it does not know
GetPlatformConfigFallback(system) ==
    [kind |-> "config",
     config |-> IF system \in DOMAIN PLATFORM_CONFIGS THEN PLATFORM_CONFIGS[system]
                ELSE LINUX]

\* utils.get_platform_config, with platform.system() as its argument
get_platform_config(system) ==
    IF system \notin DOMAIN PLATFORM_CONFIGS
    THEN [kind |-> "OSError", system |-> system]
    ELSE [kind |-> "config", config |-> PLATFORM_CONFIGS[system]]

\* the names an executable file at the top of a working copy may have
ExecNames == {"firefox.exe", "firefox", "Firefox", "firefox-bin", "firefox-esr"}

\* for executable in firefox_execs: the first that exists and is executable
RECURSIVE FirstExecutable(_, _)
FirstExecutable(execs, in_copy) ==
    IF execs = <<>> THEN ""
    ELSE IF Head(execs) \in in_copy THEN Head(execs)
    ELSE FirstExecutable(Tail(execs), in_copy)

\* _find_platform_dependent_executable on a copy that holds executables at
\* its top only: the Contents/MacOS directory and the recursive walk find
\* nothing that the first loop did not
find_platform_dependent_executable(config, in_copy) ==
    IF FirstExecutable(config.firefox_execs, in_copy) # ""
    THEN [kind |-> "path", path |-> FirstExecutable(config.firefox_execs, in_copy)]
    ELSE [kind |-> "FirefoxNotFoundException"]

\* self.platform_config = get_platform_config()
PlatformResolve ==
    /\ platform.pc = "resolve"
    /\ LET r == get_platform_config(platform.system)
       IN platform' = [platform EXCEPT !.result = r,
                                       !.pc = IF r.kind = "config" THEN "find" ELSE "ended"]
    /\ UNCHANGED <<mainvars, patcher, locator, copier, watcher, reaper, managers, footprint>>

\* self.options.binary_location = self._find_platform_dependent_executable()
PlatformFind ==
    /\ platform.pc = "find"
    /\ platform' = [platform EXCEPT
                      !.pc = "ended",
                      !.binary_location =
                          find_platform_dependent_executable(platform.result.config,
                                                             platform.in_copy)]
    /\ UNCHANGED <<mainvars, patcher, locator, copier, watcher, reaper, managers, footprint>>

InitPlatform ==
    /\ Parked
    /\ \E sys \in Systems, files \in SUBSET ExecNames :
        platform = [PlatformIdle EXCEPT !.pc = "resolve", !.system = sys, !.in_copy = files]
    /\ patcher = PatcherIdle
    /\ locator = LocatorIdle
    /\ copier = CopierIdle
    /\ watcher = WatcherIdle
    /\ reaper = ReaperIdle
    /\ managers = ManagersIdle
    /\ footprint = FootprintIdle

NextPlatform ==
    \/ PlatformResolve
    \/ PlatformFind

SpecPlatform == InitPlatform /\ [][NextPlatform]_vars

\* ------------------------------------------------------------ Reaper alone
\* The sweeps of one construction on the copies root, entry by entry: the
\* two of the startup purge and the manager's own, while another process
\* changes the entries.  The clock stands still.
\* changes another process makes to the entries while they are swept
MaxMoves == 1

\* the sweeps in the order __init__ runs them (driver.py 135, 138 and 64)
ReapPhases == <<"cleanup_old_copies", "deep_clean", "cleanup_old_copies">>

\* the prefixed entries of the root, in the order os.listdir returns them
ReapEntries == <<TempName(DeadId), TempName("b")>>

\* a lock file that is there and cannot be opened
UnreadableLock == [kind |-> "unreadable", ts |-> 0, id |-> DeadId]

\* os.path.exists(lock_file)
LockExists(d) == d.exists /\ d.lock.kind # "missing"

\* open(lock_file, "r") and json.load(f): the exception they raise, "" when
\* the marker's data came back
ReadError(d) ==
    CASE ~LockExists(d) -> "FileNotFoundError"
      [] d.lock.kind = "unreadable" -> "PermissionError"
      [] d.lock.kind = "corrupt" -> "JSONDecodeError"
      [] OTHER -> ""

\* OnReadError with the try around the loop as the only one
OnReadErrorOuterOnly(op, exc) == "abort"

\* OnReadError without any try
OnReadErrorRaises(op, exc) == "raise"

\* the except clauses around the read of one entry's marker: the stale sweep
\* logs and goes on to the next entry, the deep clean removes the directory
\* as orphaned and goes on
OnReadError(op, exc) == IF op = "cleanup_old_copies" THEN "next" ELSE "remove"

\* what a sweep does with an entry whose marker it has read
OnData(op, lock, current) ==
    IF op = "cleanup_old_copies"
    THEN IF lock.kind = "valid" /\ IsStale(lock.ts, current) THEN "remove" ELSE "next"
    ELSE IF lock.kind = "nots" THEN "remove" ELSE "next"

\* what a sweep does with an entry in which it saw no lock file
OnNoLockFile(op) == IF op = "cleanup_old_copies" THEN "next" ELSE "remove"

\* remove_directory with the failure of the last fallback raised
RemoveDirectoryRaises(d) ==
    IF ~d.exists THEN {[dir |-> d, res |-> "none"]}
    ELSE {[dir |-> Absent, res |-> "removed"], [dir |-> d, res |-> "raise"]}

\* remove_directory: nothing when the path is not there; otherwise the tree
\* is removed, or every fallback has failed, which is logged, and it stays
remove_directory(d) ==
    IF ~d.exists THEN {[dir |-> d, res |-> "none"]}
    ELSE {[dir |-> Absent, res |-> "removed"], [dir |-> d, res |-> "stuck"]}

ReapOp == ReapPhases[reaper.phase]

ReapItem == Head(reaper.todo)

\* the routine returns: after its last entry, on an empty listing, or from
\* the except clause around its loop
ReapReturn(r) ==
    IF r.phase < Len(ReapPhases) THEN [r EXCEPT !.pc = "list", !.phase = @ + 1]
    ELSE [r EXCEPT !.pc = "proceed"]

\* the loop goes on to the next entry; after the last one the routine
\* returns, and after the last routine __init__ goes on to find_firefox_path
ReapNext(r) ==
    LET rest == Tail(r.todo)
        r2 == [r EXCEPT !.todo = rest, !.visited = @ \cup {Head(r.todo)}]
    IN IF rest # <<>> THEN [r2 EXCEPT !.pc = "exists"] ELSE ReapReturn(r2)

ReapTo(r, where) ==
    CASE where = "next" -> ReapNext(r)
      [] where = "remove" -> [r EXCEPT !.pc = "remove"]
      [] where = "abort" -> ReapReturn(r)
      [] OTHER -> [r EXCEPT !.pc = "raised"]

\* for item in os.listdir(base_dir)
ReapList ==
    /\ reaper.pc = "list"
    /\ LET found == SelectSeq(ReapEntries, LAMBDA n : reaper.dirs[n].exists)
           r == [reaper EXCEPT !.todo = found, !.visited = {},
                               !.listed = {found[k] : k \in 1..Len(found)}]
       IN reaper' = IF found = <<>> THEN ReapReturn(r) ELSE [r EXCEPT !.pc = "exists"]
    /\ UNCHANGED <<mainvars, patcher, locator, copier, watcher, platform, managers, footprint>>

\* if not os.path.exists(lock_file)
ReapExists ==
    /\ reaper.pc = "exists"
    /\ reaper' = IF LockExists(reaper.dirs[ReapItem]) THEN [reaper EXCEPT !.pc = "open"]
                 ELSE ReapTo(reaper, OnNoLockFile(ReapOp))
    /\ UNCHANGED <<mainvars, patcher, locator, copier, watcher, platform, managers, footprint>>

\* the marker is opened and read, and the entry judged by it
ReapOpen ==
    /\ reaper.pc = "open"
    /\ LET d == reaper.dirs[ReapItem]
           exc == ReadError(d)
       IN reaper' = IF exc # ""
                    THEN ReapTo([reaper EXCEPT !.logged = @ \cup {exc}],
                                OnReadError(ReapOp, exc))
                    ELSE ReapTo(reaper, OnData(ReapOp, d.lock, now))
    /\ UNCHANGED <<mainvars, patcher, locator, copier, watcher, platform, managers, footprint>>

\* self.remove_directory(item_path)
ReapRemove ==
    /\ reaper.pc = "remove"
    /\ \E out \in remove_directory(reaper.dirs[ReapItem]) :
        LET r == [reaper EXCEPT !.dirs[ReapItem] = out.dir,
                                !.logged = IF out.res = "stuck" THEN @ \cup {"stuck"} ELSE @]
        IN reaper' = ReapTo(r, IF out.res = "raise" THEN "raise" ELSE "next")
    /\ UNCHANGED <<mainvars, patcher, locator, copier, watcher, platform, managers, footprint>>

\* what another process may make of an entry meanwhile: the directory gone
\* (its teardown, its sweep), the marker gone, emptied (a refresher that is
\* rewriting it) or made unreadable
ReapMoves == {Absent, Dir(NoLock), Dir(CorruptLock), Dir(UnreadableLock)}

\* another process changes an entry between its listing and the end of the
\* sweep
ReapMove ==
    /\ reaper.pc \in {"exists", "open", "remove"}
    /\ reaper.moves < MaxMoves
    /\ \E k \in 1..Len(ReapEntries), d \in ReapMoves :
        /\ reaper.dirs[ReapEntries[k]].exists
        /\ reaper.dirs[ReapEntries[k]] # d
        /\ reaper' = [reaper EXCEPT !.dirs[ReapEntries[k]] = d, !.moves = @ + 1]
    /\ UNCHANGED <<mainvars, patcher, locator, copier, watcher, platform, managers, footprint>>

\* the markers an entry may have when the construction begins
ReapLocks ==
    {NoLock, CorruptLock, NoTsLock, BadTsLock, UnreadableLock}
        \cup {ValidLock(InitNow - age * SecondsPerMinute, DeadId) : age \in InitAges}

InitReaper ==
    /\ Parked
    /\ \E ds \in [{ReapEntries[k] : k \in 1..Len(ReapEntries)}
                    -> {Absent} \cup {Dir(l) : l \in ReapLocks}] :
        reaper = [ReaperIdle EXCEPT !.pc = "list", !.phase = 1, !.dirs = ds]
    /\ patcher = PatcherIdle
    /\ locator = LocatorIdle
    /\ copier = CopierIdle
    /\ watcher = WatcherIdle
    /\ platform = PlatformIdle
    /\ managers = ManagersIdle
    /\ footprint = FootprintIdle

NextReaper ==
    \/ ReapList
    \/ ReapExists
    \/ ReapOpen
    \/ ReapRemove
    \/ ReapMove

SpecReaper == InitReaper /\ [][NextReaper]_vars

\* the constructing thread is not held up for ever
FairReaper == SpecReaper /\ WF_vars(NextReaper)

\* ------------------------------------------------------------ instance identifiers alone
\* Two sessions, of one process or of two, each with the FirefoxManager of
\* its construction.  Each directory remembers which sessions have written
\* into it.
Sessions == {"s1", "s2"}

\* str(uuid.uuid4())[:8] is any string of eight hexadecimal digits, and a
\* caller may pass instance_id itself; these are the values drawn here
IdDraws == {"1a2b3c4d", "9f8e7d6c"}

\* a directory nobody has made, and one with the sessions that wrote into
\* it and the one that did so last
Unmade == [exists |-> FALSE, wrote |-> {}, by |-> ""]

Made(d, s) == [exists |-> TRUE, wrote |-> d.wrote \cup {s}, by |-> s]

\* InstanceId with an identifier no other session has
InstanceIdFresh(s, draw) == IF s = "s1" THEN "1a2b3c4d" ELSE "9f8e7d6c"

\* self.instance_id = instance_id or str(uuid.uuid4())[:8]
InstanceId(s, draw) == draw

\* the working directory and the profile directory are named by prefix and
\* identifier alone
OwnDir(s) == managers.id[s]

SessionTo(s, l) == [managers EXCEPT !.pc[s] = l]

\* FirefoxManager(): the identifier is fixed
SessionManager(s) ==
    /\ managers.pc[s] = "new"
    /\ \E draw \in IdDraws :
        managers' = [SessionTo(s, "made") EXCEPT !.id[s] = InstanceId(s, draw)]
    /\ UNCHANGED <<mainvars, patcher, locator, copier, watcher, platform, reaper, footprint>>

\* create_firefox_copy: an existing target is returned as it is, otherwise
\* the tree is copied and the initial lock file written
SessionCopy(s) ==
    /\ managers.pc[s] = "made"
    /\ managers' = [SessionTo(s, "copied") EXCEPT
                      !.temp[OwnDir(s)] = IF @.exists THEN @ ELSE Made(@, s)]
    /\ UNCHANGED <<mainvars, patcher, locator, copier, watcher, platform, reaper, footprint>>

\* create_profile_path: the directory is made unless it is there, and the
\* lock file written either way
SessionProfile(s) ==
    /\ managers.pc[s] = "copied"
    /\ managers' = [SessionTo(s, "profiled") EXCEPT !.prof[OwnDir(s)] = Made(@, s)]
    /\ UNCHANGED <<mainvars, patcher, locator, copier, watcher, platform, reaper, footprint>>

\* _patch_libxul_file writes the xul file of self._undetected_path
SessionPatch(s) ==
    /\ managers.pc[s] = "profiled"
    /\ managers.temp[OwnDir(s)].exists
    /\ managers' = [SessionTo(s, "running") EXCEPT !.temp[OwnDir(s)] = Made(@, s)]
    /\ UNCHANGED <<mainvars, patcher, locator, copier, watcher, platform, reaper, footprint>>

\* one iteration of the watcher: update_lock_file on both directories, each
\* written only if it is there
SessionRefresh(s) ==
    /\ managers.pc[s] = "running"
    /\ managers' = [managers EXCEPT
                      !.temp[OwnDir(s)] = IF @.exists THEN Made(@, s) ELSE @,
                      !.prof[OwnDir(s)] = IF @.exists THEN Made(@, s) ELSE @]
    /\ managers' # managers
    /\ UNCHANGED <<mainvars, patcher, locator, copier, watcher, platform, reaper, footprint>>

\* quit(): cleanup_specific_instance removes the two directories of the
\* identifier
SessionQuit(s) ==
    /\ managers.pc[s] = "running"
    /\ managers' = [SessionTo(s, "done") EXCEPT !.temp[OwnDir(s)] = Unmade,
                                                !.prof[OwnDir(s)] = Unmade]
    /\ UNCHANGED <<mainvars, patcher, locator, copier, watcher, platform, reaper, footprint>>

InitManagers ==
    /\ Parked
    /\ managers = [id |-> [s \in Sessions |-> ""], pc |-> [s \in Sessions |-> "new"],
                   temp |-> [i \in IdDraws |-> Unmade], prof |-> [i \in IdDraws |-> Unmade]]
    /\ patcher = PatcherIdle
    /\ locator = LocatorIdle
    /\ copier = CopierIdle
    /\ watcher = WatcherIdle
    /\ platform = PlatformIdle
    /\ reaper = ReaperIdle
    /\ footprint = FootprintIdle

NextManagers ==
    \E s \in Sessions :
        \/ SessionManager(s)
        \/ SessionCopy(s)
        \/ SessionProfile(s)
        \/ SessionPatch(s)
        \/ SessionRefresh(s)
        \/ SessionQuit(s)

SpecManagers == InitManagers /\ [][NextManagers]_vars

\* ------------------------------------------------------------ the footprint of one instance alone
\* One instance from construction to quit() with the paths it computes.  A
\* path is the sequence of its names from the root of the file system; a name
\* is a sequence of pieces, as the names of the managed directories are.
\* footprint.written and footprint.removed collect every path the instance
\* has created or written and every path it has removed.
Name(s) == <<s>>

\* os.path.join(path, name), name relative
PathJoin(path, name) == Append(path, name)

\* path lies in the tree below root, or is root
Under(path, root) == Len(path) >= Len(root) /\ SubSeq(path, 1, Len(root)) = root

\* tempfile.gettempdir()
SystemTemp == <<Name("tmp")>>

PROFILE_FOLDER_NAME == Name("undetected_geckodriver_profiles")

\* FirefoxManager.__init__: self.temp_dir and self.profiles_dir
temp_dir == PathJoin(SystemTemp, Name("undetected_geckodriver"))

profiles_dir == PathJoin(SystemTemp, PROFILE_FOLDER_NAME)

\* os.path.join(directory_path, "ugff.lock")
LockFilePath(dir) == PathJoin(dir, Name("ugff.lock"))

\* where the browser is installed
Installations ==
    {<<Name("usr"), Name("lib"), Name("firefox")>>,
     <<Name("Applications"), Name("Firefox.app"), Name("Contents"), Name("MacOS")>>}

\* the files of an installation, as paths relative to it: library and
\* executable at the top, the executable in an application bundle, both one
\* level down, or neither
Layouts(config) ==
    LET xul == Name(config.xul)
        exe == Name(config.firefox_execs[1])
    IN {{<<xul>>, <<exe>>},
        {<<xul>>, <<Name("Contents"), Name("MacOS"), exe>>},
        {<<Name("core"), xul>>, <<Name("core"), exe>>},
        {<<Name("readme")>>}}

\* os.name on the system
OsName(system) == IF system = "Windows" THEN "nt" ELSE "posix"

\* the last name of a path
Basename(path) == path[Len(path)]

\* LibxulPaths with the library looked up in the installation
LibxulPathsInSource(self, xul, os_name, files) ==
    {self.firefox_path \o f : f \in {g \in files : Basename(g) = Name(xul)}}

\* _patch_libxul_file, the path it patches: the library at the top of the
\* working copy, on Windows else the first os.walk of the working copy finds
\* (any of them, the order of the walk is not fixed); no path when there is none
LibxulPaths(self, xul, os_name, files) ==
    IF <<Name(xul)>> \in files THEN {PathJoin(self.undetected_path, Name(xul))}
    ELSE IF os_name = "nt"
         THEN {self.undetected_path \o f : f \in {g \in files : Basename(g) = Name(xul)}}
         ELSE {}

\* the names among execs found in directory dir (a relative path) of the copy
ExecsIn(dir, files) == {e \in ExecNames : dir \o <<Name(e)>> \in files}

\* if file in self.platform_config.firefox_execs
NamedAsExecutable(config, g) ==
    \E k \in DOMAIN config.firefox_execs : Basename(g) = Name(config.firefox_execs[k])

\* ExecutablePaths with the executable of the installation itself
ExecutablePathsInSource(self, config, system, files) ==
    {self.firefox_path \o f : f \in {g \in files : NamedAsExecutable(config, g)}}

\* _find_platform_dependent_executable, the path it returns: the first of
\* firefox_execs at the top of the working copy, on Darwin else the first in
\* Contents/MacOS, else whatever os.walk of the working copy finds first;
\* no path when it raises
ExecutablePaths(self, config, system, files) ==
    LET app_macos == <<Name("Contents"), Name("MacOS")>>
        top == FirstExecutable(config.firefox_execs, ExecsIn(<<>>, files))
        mac == FirstExecutable(config.firefox_execs, ExecsIn(app_macos, files))
    IN IF top # "" THEN {PathJoin(self.undetected_path, Name(top))}
       ELSE IF system = "Darwin" /\ mac # ""
            THEN {PathJoin(self.undetected_path \o app_macos, Name(mac))}
            ELSE {self.undetected_path \o f :
                    f \in {g \in files : NamedAsExecutable(config, g)}}

\* shutil.copytree(firefox_path, target_dir): what it creates
CopyTreeCreates(firefox_path, target_dir, files) ==
    {target_dir} \cup {target_dir \o f : f \in files}

\* cleanup_mozilla_profiles, and the scratch half of
\* cleanup_specific_instance: every rust_mozprofile entry of the system
\* temp directory
ScratchPaths(sys) ==
    {PathJoin(SystemTemp, n) : n \in {m \in sys : StartsWith(m, MOZ_PROFILE_PREFIX)}}

\* the prefixed entries of the two roots, from which the sweeps pick what
\* they judge stale or orphaned
SweepCandidates(entries) ==
    {PathJoin(temp_dir, n) : n \in {m \in entries.temp : StartsWith(m, TEMP_DIR_PREFIX)}}
        \cup {PathJoin(profiles_dir, n) :
                n \in {m \in entries.prof : StartsWith(m, PROFILE_DIR_PREFIX)}}

\* cleanup_specific_instance: the two directories of the instance and the
\* scratch profiles
SpecificPaths(id, sys) ==
    {PathJoin(temp_dir, TempName(id)), PathJoin(profiles_dir, ProfileName(id))}
        \cup ScratchPaths(sys)

\* the entries with what was removed taken away
Without(entries, paths) ==
    [temp |-> {n \in entries.temp : PathJoin(temp_dir, n) \notin paths},
     prof |-> {n \in entries.prof : PathJoin(profiles_dir, n) \notin paths},
     sys |-> {n \in entries.sys : PathJoin(SystemTemp, n) \notin paths}]

FootprintTo(l) == [footprint EXCEPT !.pc = l]

\* the attributes of the instance the path computations read
FootprintSelf ==
    [firefox_path |-> footprint.firefox_path, undetected_path |-> footprint.undetected_path]

\* FirefoxManager(): both roots are made if they are not there
FootprintManager ==
    /\ footprint.pc = "manager"
    /\ footprint' = [FootprintTo("sweep") EXCEPT !.written = @ \cup {temp_dir, profiles_dir}]
    /\ UNCHANGED <<mainvars, patcher, locator, copier, watcher, platform, reaper, managers>>

\* the sweeps of construction (startup purge and the manager's own): some of
\* the prefixed entries of the two roots, and every scratch profile
FootprintSweep ==
    /\ footprint.pc = "sweep"
    /\ \E stale \in SUBSET SweepCandidates(footprint.entries) :
        LET gone == stale \cup ScratchPaths(footprint.entries.sys)
        IN footprint' = [FootprintTo("locate") EXCEPT
                            !.removed = @ \cup gone,
                            !.entries = Without(@, gone)]
    /\ UNCHANGED <<mainvars, patcher, locator, copier, watcher, platform, reaper, managers>>

\* find_firefox_path: only os.path.exists is asked
FootprintLocate ==
    /\ footprint.pc = "locate"
    /\ footprint' = [FootprintTo("copy") EXCEPT !.firefox_path = footprint.source]
    /\ UNCHANGED <<mainvars, patcher, locator, copier, watcher, platform, reaper, managers>>

\* create_firefox_copy: copytree and the initial lock file
FootprintCopy ==
    /\ footprint.pc = "copy"
    /\ LET target_dir == PathJoin(temp_dir, TempName("a"))
       IN footprint' = [FootprintTo("profile") EXCEPT
                           !.undetected_path = target_dir,
                           !.written = @ \cup CopyTreeCreates(footprint.firefox_path,
                                                              target_dir, footprint.files)
                                         \cup {LockFilePath(target_dir)},
                           !.entries.temp = @ \cup {TempName("a")}]
    /\ UNCHANGED <<mainvars, patcher, locator, copier, watcher, platform, reaper, managers>>

\* create_profile_path: the directory with its lock file, or None
FootprintProfile ==
    /\ footprint.pc = "profile"
    /\ \E ok \in BOOLEAN :
        LET profile_dir == PathJoin(profiles_dir, ProfileName("a"))
        IN footprint' =
            IF ok
            THEN [FootprintTo("patch") EXCEPT
                    !.profile_path = profile_dir,
                    !.written = @ \cup {profile_dir, LockFilePath(profile_dir)},
                    !.entries.prof = @ \cup {ProfileName("a")}]
            ELSE FootprintTo("patch")
    /\ UNCHANGED <<mainvars, patcher, locator, copier, watcher, platform, reaper, managers>>

\* _patch_libxul_file: the library is rewritten where it was found, or
\* FirefoxPatchException when it was not
FootprintPatch ==
    /\ footprint.pc = "patch"
    /\ LET found == LibxulPaths(FootprintSelf, PLATFORM_CONFIGS[footprint.system].xul,
                                OsName(footprint.system), footprint.files)
       IN IF found = {}
          THEN footprint' = FootprintTo("failed")
          ELSE \E libxul_path \in found :
                footprint' = [FootprintTo("refresh") EXCEPT !.written = @ \cup {libxul_path}]
    /\ UNCHANGED <<mainvars, patcher, locator, copier, watcher, platform, reaper, managers>>

\* the lock files a round of the watcher, or stop(), writes
RefreshWrites(f) ==
    {LockFilePath(f.undetected_path)}
        \cup (IF f.profile_path # <<>> THEN {LockFilePath(f.profile_path)} ELSE {})

\* lock_watcher.start() and the first round of the loop
FootprintRefresh ==
    /\ footprint.pc = "refresh"
    /\ footprint' = [FootprintTo("find") EXCEPT !.written = @ \cup RefreshWrites(footprint)]
    /\ UNCHANGED <<mainvars, patcher, locator, copier, watcher, platform, reaper, managers>>

\* options.binary_location = _find_platform_dependent_executable(), and the
\* launch of the client, which makes a scratch profile when it was given none
FootprintFind ==
    /\ footprint.pc = "find"
    /\ LET found == ExecutablePaths(FootprintSelf, PLATFORM_CONFIGS[footprint.system],
                                    footprint.system, footprint.files)
       IN IF found = {}
          THEN footprint' = FootprintTo("failed")
          ELSE \E full_path \in found :
                footprint' = [FootprintTo("running") EXCEPT
                                !.binary_location = full_path,
                                !.entries.sys = IF footprint.profile_path = <<>>
                                                THEN @ \cup {ScratchName("a")} ELSE @]
    /\ UNCHANGED <<mainvars, patcher, locator, copier, watcher, platform, reaper, managers>>

\* quit(), or the destructor of a failed construction: the final writes of
\* stop() if there is a watcher, and cleanup_specific_instance
FootprintQuit ==
    /\ footprint.pc \in {"running", "failed"}
    /\ LET gone == SpecificPaths("a", footprint.entries.sys)
       IN footprint' = [FootprintTo("done") EXCEPT
                           !.written = IF footprint.pc = "running"
                                       THEN @ \cup RefreshWrites(footprint) ELSE @,
                           !.removed = @ \cup gone,
                           !.entries = Without(@, gone)]
    /\ UNCHANGED <<mainvars, patcher, locator, copier, watcher, platform, reaper, managers>>

\* the entries of the two roots and of the system temp directory a
\* construction may find
FoundEntries ==
    {[temp |-> {OtherTemp} \cup t, prof |-> {OtherProf} \cup p, sys |-> {OtherSys} \cup s] :
        t \in SUBSET {TempName(DeadId)}, p \in SUBSET {ProfileName(DeadId)},
        s \in SUBSET {ForeignScratch}}

InitFootprint ==
    /\ Parked
    /\ \E system \in DOMAIN PLATFORM_CONFIGS, source \in Installations, found \in FoundEntries :
        \E files \in Layouts(PLATFORM_CONFIGS[system]) :
            footprint = [FootprintIdle EXCEPT !.pc = "manager", !.system = system,
                                              !.source = source, !.files = files,
                                              !.entries = found]
    /\ patcher = PatcherIdle
    /\ locator = LocatorIdle
    /\ copier = CopierIdle
    /\ watcher = WatcherIdle
    /\ platform = PlatformIdle
    /\ reaper = ReaperIdle
    /\ managers = ManagersIdle

NextFootprint ==
    \/ FootprintManager
    \/ FootprintSweep
    \/ FootprintLocate
    \/ FootprintCopy
    \/ FootprintProfile
    \/ FootprintPatch
    \/ FootprintRefresh
    \/ FootprintFind
    \/ FootprintQuit

SpecFootprint == InitFootprint /\ [][NextFootprint]_vars

\* ------------------------------------------------------------ properties
Elems(q) == {q[k] : k \in 1..Len(q)}

Threshold == CLEANUP_THRESHOLD_MINUTES * SecondsPerMinute

\* the steps that sweep the managed roots: the two passes of "a", and the
\* construction of "b", which runs both
SweepOps == {"cleanup_old_copies", "deep_clean", "construct"}

ManagedRemoved == {r \in last.removed : r.root \in {"temp", "prof"}}

PrefixedTemp == {n \in TempNames : StartsWith(n, TEMP_DIR_PREFIX)}

PrefixedProf == {n \in ProfNames : StartsWith(n, PROFILE_DIR_PREFIX)}

\* C1: no sweep of any process removes a prefixed directory whose marker, as
\* the sweep finds it, is valid and not older than 20 minutes
C1_LiveMarkerNeverSwept ==
    last.op \in SweepOps =>
        \A r \in ManagedRemoved :
            ~(r.lock.kind = "valid" /\ last.at - r.lock.ts <= Threshold)

\* a sweep has removed something and has left a directory with a fresh marker
C1_Witness ==
    /\ last.op \in SweepOps
    /\ ManagedRemoved # {}
    /\ \E n \in PrefixedTemp :
        /\ tempRoot[n].exists
        /\ tempRoot[n].lock.kind = "valid"
        /\ last.at - tempRoot[n].lock.ts <= Threshold

\* C2: while an instance runs with its refresher, between the end of its
\* construction and the start of its teardown, the markers of its two
\* directories are younger than the threshold, and no sweep of another
\* process removes either directory
C2_RunningInstanceNeverSwept ==
    \A i \in Inst :
        (pc[i] = "running" /\ running[i]) =>
            /\ tempRoot[TempName(i)].lock.kind = "valid" =>
                now - tempRoot[TempName(i)].lock.ts < Threshold
            /\ profRoot[ProfileName(i)].lock.kind = "valid" =>
                now - profRoot[ProfileName(i)].lock.ts < Threshold
            /\ (last.op \in SweepOps /\ last.who # i) =>
                \A r \in ManagedRemoved : r.name \notin {TempName(i), ProfileName(i)}

\* C3: a sweep of another process never removes a directory whose marker the
\* owner's refresher is rewriting at that moment
C3_MidWriteNeverSwept ==
    (last.op \in SweepOps /\ last.who # "a") =>
        /\ wpc["a"] = "write_c" =>
            \A r \in ManagedRemoved : r.name # TempName("a")
        /\ wpc["a"] = "write_p" =>
            \A r \in ManagedRemoved : r.name # ProfileName("a")

\* what C4 calls reclaimable, at time t
Reclaimable(lock, t) ==
    \/ lock.kind \in {"missing", "corrupt", "nots"}
    \/ lock.kind = "valid" /\ t - lock.ts > Threshold

NoneLeft(P(_)) ==
    /\ \A n \in PrefixedTemp : tempRoot[n].exists => ~P(tempRoot[n].lock)
    /\ \A n \in PrefixedProf : profRoot[n].exists => ~P(profRoot[n].lock)

C5_NonPrefixedUntouched ==
    /\ \A n \in TempNames \ PrefixedTemp : tempRoot[n] = OtherTempDir
    /\ \A n \in ProfNames \ PrefixedProf : profRoot[n] = OtherProfDir

\* both instances were constructed and torn down, sweeps included
C5_Witness ==
    /\ pc["a"] = "done"
    /\ pc["b"] = "done"
    /\ tempRoot[OtherTemp].exists
    /\ profRoot[OtherProf].exists

\* C6: the stale sweep removes a directory with a parseable marker exactly
\* when the marker is more than 20 minutes old: 21 minutes is stale, 19
\* minutes (and 20 minutes sharp) is live
C6_StaleExactlyBeyondThreshold ==
    (last.op = "cleanup_old_copies") =>
        /\ \A r \in ManagedRemoved :
            r.lock.kind = "valid" /\ last.at - r.lock.ts > 20 * 60
        /\ \A n \in PrefixedTemp :
            (tempRoot[n].exists /\ tempRoot[n].lock.kind = "valid" /\ n \notin last.failed)
                => last.at - tempRoot[n].lock.ts <= 20 * 60
        /\ \A n \in PrefixedProf :
            (profRoot[n].exists /\ profRoot[n].lock.kind = "valid" /\ n \notin last.failed)
                => last.at - profRoot[n].lock.ts <= 20 * 60

\* a stale sweep has removed a directory whose marker was 21 minutes old
C6_Witness ==
    /\ last.op = "cleanup_old_copies"
    /\ \E r \in ManagedRemoved : last.at - r.lock.ts = 21 * 60

\* C7 as stated: once quit() has returned, neither directory of the instance
\* exists
C7_AbsentAfterQuit ==
    \A i \in Inst :
        pc[i] = "done" =>
            /\ ~tempRoot[TempName(i)].exists
            /\ ~profRoot[ProfileName(i)].exists

OwnDirsStep(i) ==
    /\ (pc[i] # "done" /\ pc'[i] = "done") =>
        /\ TempName(i) \notin last'.failed => ~tempRoot'[TempName(i)].exists
        /\ ProfileName(i) \notin last'.failed => ~profRoot'[ProfileName(i)].exists
    /\ pc[i] \in {"done", "reclaimed"} =>
        /\ ~tempRoot[TempName(i)].exists => ~tempRoot'[TempName(i)].exists
        /\ ~profRoot[ProfileName(i)].exists => ~profRoot'[ProfileName(i)].exists

\* C7 as amended: when quit() returns, each of the two directories of the
\* instance is absent unless its removal failed (which quit only logs), and
\* a directory that is absent then stays absent, whatever the refresher
\* thread and the other processes still do
C7_AbsentAfterQuitUnlessRemovalFailed == [][\A i \in Inst : OwnDirsStep(i)]_vars

\* quit() of "a" has returned, both directories are gone, and its refresher
\* thread, which had a profile to refresh, is still asleep
C7_Witness ==
    /\ pc["a"] = "done"
    /\ profile["a"] = "set"
    /\ wpc["a"] = "sleep"
    /\ ~tempRoot[TempName("a")].exists
    /\ ~profRoot[ProfileName("a")].exists

\* C8: a teardown takes away no scratch profile of another instance that is
\* still running, and no working copy or profile directory but its own
C8_TeardownTargeted ==
    last.op = "cleanup_specific_instance" =>
        \A r \in last.removed :
            /\ r.root = "temp" => r.name = TempName(last.who)
            /\ r.root = "prof" => r.name = ProfileName(last.who)
            /\ r.root = "sys" =>
                \A j \in Inst \ {last.who} :
                    pc[j] = "running" => r.name # ScratchName(j)

IsPrefix(q, full) == Len(q) <= Len(full) /\ \A k \in 1..Len(q) : q[k] = full[k]

TeardownOrders ==
    {<<"stop", "final_write", c, "reap">> : c \in {"client_quit", "client_quit_failed"}}

\* the teardown of an instance whose construction failed before it had a
\* refresher has none to stop
TeardownOrdersOf(i) ==
    IF HasLockWatcher(i) THEN TeardownOrders
    ELSE {<<c, "reap">> : c \in {"client_quit", "client_quit_failed"}}

\* C9: the steps of a teardown come in the order stop of the refresher (its
\* final marker write included), request to the client, removal of the
\* directories; when the directories are removed the refresher has been told
\* to stop and the client has been asked to quit
C9_TeardownOrder ==
    /\ \A i \in Inst : \E full \in TeardownOrdersOf(i) : IsPrefix(hist[i], full)
    /\ last.op = "cleanup_specific_instance" =>
        /\ ~running[last.who]
        /\ hist[last.who] \in TeardownOrdersOf(last.who)

\* the teardown of "a" has just removed its working copy
C9_Witness ==
    /\ last.op = "cleanup_specific_instance"
    /\ last.who = "a"
    /\ \E r \in last.removed : r.root = "temp" /\ r.name = TempName("a")

\* C10: quit() never ends in a raised error; after the client failed to
\* terminate, control is in the finally clause or past it, and quit() does
\* not return before the removal of the directories was attempted
C10_QuitBestEffort ==
    \A i \in Inst :
        /\ pc[i] # "raised"
        /\ "client_quit_failed" \in Elems(hist[i]) =>
            pc[i] \in {"cleanup", "done", "reclaimed"}
        /\ pc[i] = "done" => hist[i][Len(hist[i])] = "reap"

\* quit() of "a" has returned although the client failed to terminate, and
\* the working copy is gone
C10_Witness ==
    /\ pc["a"] = "done"
    /\ "client_quit_failed" \in Elems(hist["a"])
    /\ ~tempRoot[TempName("a")].exists

\* a directory with a valid marker of instance i that is fresh at time t
FreshOwn(d, i, t) ==
    /\ d.exists
    /\ d.lock.kind = "valid"
    /\ d.lock.id = i
    /\ t - d.lock.ts <= Threshold

\* C11: at the step that ends a successful construction, the working
\* directory of the instance and, when one was allocated, its profile
\* directory exist, each with a valid fresh marker that carries the
\* instance's id
C11_ConstructedHasFreshMarkers ==
    [][\A i \in Inst :
        (pc[i] # "running" /\ pc'[i] = "running") =>
            /\ FreshOwn(tempRoot'[TempName(i)], i, now')
            /\ profile'[i] = "set" => FreshOwn(profRoot'[ProfileName(i)], i, now')]_vars

\* the positions at which data holds the marker
Occurrences(data) ==
    {k \in 1..Len(data) :
        /\ k + Len(TO_REPLACE_STRING) - 1 <= Len(data)
        /\ SubSeq(data, k, k + Len(TO_REPLACE_STRING) - 1) = TO_REPLACE_STRING}

\* C12: after a file that contains the marker was patched, it has the length
\* it had, the marker occurs nowhere in it, every place that held the marker
\* holds the replacement, and the replacement is alphanumeric, as long as the
\* marker and different from it
C12_PatchedFileHasNoMarker ==
    (patcher.pc = "patched" /\ Occurrences(patcher.original) # {}) =>
        /\ Len(patcher.libxul_data) = Len(patcher.original)
        /\ Occurrences(patcher.libxul_data) = {}
        /\ \A k \in Occurrences(patcher.original) :
            SubSeq(patcher.libxul_data, k, k + Len(TO_REPLACE_STRING) - 1)
                = patcher.random_bytes
        /\ Len(patcher.random_bytes) = Len(TO_REPLACE_STRING)
        /\ \A k \in 1..Len(patcher.random_bytes) : patcher.random_bytes[k] \in Alphanumeric
        /\ patcher.random_bytes # TO_REPLACE_STRING

\* the part of C12 that holds whatever string is drawn
PatchKeepsLength ==
    patcher.pc = "patched" =>
        /\ Len(patcher.libxul_data) = Len(patcher.original)
        /\ Len(patcher.random_bytes) = Len(TO_REPLACE_STRING)
        /\ \A k \in Occurrences(patcher.original) :
            SubSeq(patcher.libxul_data, k, k + Len(TO_REPLACE_STRING) - 1)
                = patcher.random_bytes

PatcherEnded == patcher.pc \in {"patched", "skipped", "raised"}

FatalErrors ==
    [locate |-> "FirefoxNotFoundException", copy |-> "FirefoxCopyException",
     patch |-> "FirefoxPatchException"]

\* C14: once locating, copying or patching has failed, construction has
\* ended with the error of that step: the steps after it have not run, the
\* refresher was never started and the client never launched
C14_ConstructionErrorsAreFatal ==
    \A i \in Inst :
        error[i].at \in DOMAIN FatalErrors =>
            /\ error[i].exc = FatalErrors[error[i].at]
            /\ pc[i] \in {"failed", "reclaimed"}
            /\ ~running[i]
            /\ wpc[i] = "idle"
            /\ args[i] = <<>>
            /\ error[i].at = "locate" => ~tempRoot[TempName(i)].exists
            /\ error[i].at \in {"locate", "copy"} =>
                profile[i] = "none" /\ ~profRoot[ProfileName(i)].exists

\* the patch of "a" has failed, after its copy and its profile were made
C14_Witness ==
    /\ error["a"] = [at |-> "patch", exc |-> "FirefoxPatchException"]
    /\ pc["a"] = "failed"
    /\ tempRoot[TempName("a")].exists
    /\ profile["a"] = "set"

\* C15: with an override that does not exist, locate returns no path at all
\* (it must raise instead of going on to the candidates)
C15_MissingOverrideRaises ==
    (/\ locator.pc = "ended"
     /\ locator.custom_path # NoPath
     /\ locator.custom_path \notin locator.on_disk)
        => locator.result.kind # "path"

\* the places of the candidate list that hold an existing candidate
ExistingAt(l, d) == {k \in 1..Len(l) : l[k] # NoPath /\ l[k] \in d}

\* C16: an existing override is returned as it is; without an override the
\* first existing candidate in list order is returned; with no existing
\* candidate and no valid override FirefoxNotFoundException is raised and
\* names the override (if given) and every candidate
C16_LocatorPrecedence ==
    locator.pc = "ended" =>
        LET c == locator.custom_path
            l == locator.lookup_paths
            d == locator.on_disk
            r == locator.result
            valid == c # NoPath /\ c \in d
        IN /\ valid => r.kind = "path" /\ r.path = c
           /\ (c = NoPath /\ ExistingAt(l, d) # {}) =>
                /\ r.kind = "path"
                /\ \E k \in ExistingAt(l, d) :
                    /\ r.path = l[k]
                    /\ \A m \in ExistingAt(l, d) : k <= m
           /\ (~valid /\ ExistingAt(l, d) = {}) =>
                /\ r.kind = "FirefoxNotFoundException"
                /\ c # NoPath => c \in Elems(r.checked_paths)
                /\ \A k \in 1..Len(l) : l[k] # NoPath => l[k] \in Elems(r.checked_paths)

\* no override, two different candidates that both exist: the first was
\* returned
C16_Witness ==
    /\ locator.pc = "ended"
    /\ locator.custom_path = NoPath
    /\ Len(locator.lookup_paths) = 2
    /\ locator.lookup_paths[1] # locator.lookup_paths[2]
    /\ Elems(locator.lookup_paths) \subseteq locator.on_disk
    /\ locator.result = Returned(locator.lookup_paths[1])

\* C17: a call of create_firefox_copy that finds the working directory of
\* its instance returns that directory and has copied, written and changed
\* nothing in it; so two calls in a row leave one directory, with the
\* contents and the marker the first call left
C17_CopierIdempotent ==
    (copier.ret # "none" /\ copier.before.exists) =>
        /\ copier.ret = "path"
        /\ copier.target = copier.before
        /\ ~copier.io

\* a second call right after a first one that copied and wrote the marker
C17_Witness ==
    /\ copier.calls = 2
    /\ copier.before = copier.target
    /\ copier.ret = "path"
    /\ ~copier.io
    /\ copier.target = [exists |-> TRUE, content |-> "complete", lock |-> ValidLock(1, "a")]

\* C18: a profile directory that cannot be created raises nothing and
\* leaves the instance without one: its refresher never touches a profile
\* marker, and the client is launched without a profile argument; the client
\* of an instance with a profile gets "-profile" followed by that instance's
\* profile directory
C18_ProfileDegrades ==
    \A i \in Inst :
        /\ error[i].at # "profile"
        /\ profile[i] = "none" =>
            /\ ~profRoot[ProfileName(i)].exists
            /\ wpc[i] \notin {"open_p", "write_p"}
            /\ pc[i] \notin {"prof_open", "prof_write", "fprof_open", "fprof_write"}
        /\ pc[i] = "running" =>
            args[i] = IF profile[i] = "set" THEN <<"-profile", ProfileName(i)>> ELSE <<>>

\* "a" runs without a profile of its own, and its refresher has done a round
C18_Witness ==
    /\ pc["a"] = "running"
    /\ profile["a"] = "none"
    /\ args["a"] = <<>>
    /\ wpc["a"] = "sleep"
    /\ tempRoot[TempName("a")].lock.kind = "valid"

\* which process constructs which instance: nothing an instance does
\* depends on it, so every behaviour is one of either deployment
Deployments == {[a |-> "p", b |-> "p"], [a |-> "p", b |-> "q"]}

\* _purge_stale_instances has run to its end in the construction of i
Purged(i) == IF i = "a" THEN pc[i] \notin {"new", "purge_deep"} ELSE pc[i] # "new"

\* C19: however the instances are spread over processes, the startup purge
\* has run at most once in each process
C19_PurgeOncePerProcess ==
    \A proc \in Deployments :
        \A p \in {"p", "q"} :
            Cardinality({i \in Inst : proc[i] = p /\ Purged(i)}) <= 1

\* C20: an instance that was reclaimed has been torn down: its refresher
\* was told to stop, its client asked to quit and the removal of its
\* directories attempted, by quit() or else by the destructor
C20_ReclaimedWasTornDown ==
    \A i \in Inst :
        pc[i] = "reclaimed" =>
            /\ ~running[i]
            /\ "reap" \in Elems(hist[i])

\* the half of C20 that holds: after a quit() that removed the working copy
\* the destructor changes nothing
DelAfterQuitDoesNothing ==
    [][\A i \in Inst :
        (pc[i] = "done" /\ pc'[i] = "reclaimed") =>
            UNCHANGED <<tempRoot, profRoot, sysTmp, running, wpc, hist, error>>]_vars

\* C21: stop() never waits longer than the timeout of its join, and every call
\* of stop() returns, wherever the thread is at that time
C21_StopAlwaysReturns ==
    /\ [](watcher.waited <= JoinTimeout)
    /\ [](watcher.pc \in {"join", "final_c", "final_p"} => <>(watcher.pc = "ready"))

\* stop() has returned after the whole timeout, and the thread is still in
\* its sleep
C21_Witness ==
    /\ watcher.pc = "ready"
    /\ watcher.stops = 1
    /\ watcher.waited = JoinTimeout
    /\ watcher.thread = "sleep"
    /\ watcher.clock < watcher.wake

\* C22: for Windows, Darwin and Linux the resolution returns a configuration
\* with at least one executable name and at least one candidate path; for
\* every other identifier it fails with an error
C22_PlatformConfigResolution ==
    platform.pc \in {"find", "ended"} =>
        IF platform.system \in {"Windows", "Darwin", "Linux"}
        THEN /\ platform.result.kind = "config"
             /\ Len(platform.result.config.firefox_execs) > 0
             /\ Len(platform.result.config.firefox_paths) > 0
        ELSE platform.result.kind = "OSError"

\* a supported system was resolved, and an executable of its list found in
\* the working copy
C22_Witness ==
    /\ platform.pc = "ended"
    /\ platform.system = "Darwin"
    /\ platform.result.kind = "config"
    /\ platform.binary_location.kind = "path"

\* C23: the profile directory of an instance is allocated after its binary
\* was patched: while the patcher has not yet run, and after it failed, the
\* instance has no profile directory
C23_ProfileAfterPatch ==
    \A i \in Inst :
        (pc[i] = "patch" \/ error[i].at = "patch") => ~profRoot[ProfileName(i)].exists

\* C24: a failed copy raises FirefoxCopyException and leaves the partial copy,
\* without a lock file, where it is; the next deep clean of another
\* construction removes it, unless the removal itself fails
C24_FailedCopyLeftForReaper ==
    [][\A i \in Inst :
        /\ (error[i].at # "copy" /\ error'[i].at = "copy") =>
            /\ error'[i].exc = "FirefoxCopyException"
            /\ tempRoot'[TempName(i)] = Dir(NoLock)
        /\ (/\ error[i].at = "copy"
            /\ tempRoot[TempName(i)].exists
            /\ last'.op \in {"deep_clean", "construct"}
            /\ TempName(i) \notin last'.failed) =>
                ~tempRoot'[TempName(i)].exists]_vars

\* the copy of "a" failed, and the construction of "b" has just removed what
\* it left
C24_Witness ==
    /\ error["a"] = [at |-> "copy", exc |-> "FirefoxCopyException"]
    /\ last.who = "b"
    /\ [root |-> "temp", name |-> TempName("a"), lock |-> NoLock] \in last.removed

\* C25: the file is taken from the top of the working copy when it is there
\* and otherwise from deeper inside it, whatever the platform; the search
\* ends in FirefoxPatchException only when the file is nowhere in the copy
C25_XulFoundWhereverItIs ==
    patcher.pc # "lookup" =>
        /\ "child" \in patcher.places => patcher.found = "child"
        /\ patcher.places = {"nested"} => patcher.found = "nested"
        /\ patcher.places = {} =>
            /\ patcher.found = "none"
            /\ patcher.pc = "raised"
            /\ patcher.exc = "FirefoxPatchException"

\* the part of C25 that holds on every platform: a file at the top of the
\* copy is the one taken, and a file that is nowhere ends the patcher
XulDirectChildFirst ==
    patcher.pc # "lookup" =>
        /\ "child" \in patcher.places => patcher.found = "child"
        /\ patcher.places = {} => patcher.pc = "raised"
        /\ (patcher.os_name = "nt" /\ patcher.places = {"nested"}) => patcher.found = "nested"

\* C26: a file that was found is writable when it is read and written, made
\* so where needed; a file whose permission cannot be promoted, and a write
\* that fails, end the patcher in FirefoxPatchException, and the patcher
\* reports success only with the patched bytes in the file
C26_UnwritableIsPatchFailure ==
    patcher.found # "none" =>
        /\ patcher.promoted => patcher.mode = "rw"
        /\ patcher.pc \in {"read", "replace", "skipped", "patched"} =>
            patcher.mode \in {"rw", "wo"}
        /\ (PatcherEnded /\ patcher.mode = "locked") => patcher.pc = "raised"
        /\ patcher.pc = "raised" => patcher.exc = "FirefoxPatchException"
        /\ (/\ PatcherEnded
            /\ patcher.random_bytes # <<>>
            /\ patcher.libxul_data
                # Replace(patcher.original, TO_REPLACE_STRING, patcher.random_bytes)) =>
                patcher.pc = "raised"
        /\ patcher.pc = "patched" =>
            patcher.libxul_data
                = Replace(patcher.original, TO_REPLACE_STRING, patcher.random_bytes)

\* a file with the marker was made writable, and the write of the patched
\* bytes failed with the file truncated
C26_Witness ==
    /\ patcher.pc = "raised"
    /\ patcher.promoted
    /\ Occurrences(patcher.original) # {}
    /\ patcher.libxul_data = <<>>
    /\ patcher.exc = "FirefoxPatchException"

\* C27: no write of a lock file, failed or not, ends the loop or leaves
\* stop() as an exception: after either write of an iteration the loop goes
\* on to the next write or to its sleep, after the sleep it tests the flag
\* again, and while the flag is set it writes again; it ends only with the
\* flag cleared
C27_FailedWriteIsBestEffort ==
    [][/\ watcher'.thread # "crashed"
       /\ watcher'.pc # "raised"
       /\ watcher'.thread # watcher.thread =>
            /\ watcher.thread = "update_c" => watcher'.thread \in {"update_p", "sleep"}
            /\ watcher.thread = "update_p" => watcher'.thread = "sleep"
            /\ watcher.thread = "sleep" =>
                /\ watcher'.thread = "check"
                /\ watcher.clock = watcher.wake
            /\ (watcher.thread = "check" /\ watcher.running) =>
                watcher'.thread = "update_c"
            /\ watcher'.thread = "exit" => ~watcher.running]_vars

\* the write of the first iteration failed, an interval has passed, and the
\* loop is about to write again
C27_Witness ==
    /\ watcher.lost
    /\ watcher.running
    /\ watcher.thread = "update_c"
    /\ watcher.clock = LOCK_FILE_UPDATE_INTERVAL_SECONDS

\* what C28 calls an Invalid marker: missing, unparseable, without a
\* timestamp, with a timestamp that is zero or no number, or without an id
InvalidMarker(lock) == lock.kind # "valid" \/ lock.id = ""

\* C28: when a purge has run its deep clean, no prefixed directory with an
\* Invalid marker is left in either root, apart from those whose removal
\* failed and the directories the purging construction made itself
C28_InvalidMarkerReclaimed ==
    last.op \in {"deep_clean", "construct"} =>
        /\ \A n \in PrefixedTemp \ {TempName(last.who)} :
            (tempRoot[n].exists /\ n \notin last.failed) =>
                ~InvalidMarker(tempRoot[n].lock)
        /\ \A n \in PrefixedProf \ {ProfileName(last.who)} :
            (profRoot[n].exists /\ n \notin last.failed) =>
                ~InvalidMarker(profRoot[n].lock)

\* the part of C28 that holds: after the deep clean no prefixed directory is
\* left whose marker is missing, unparseable or without a timestamp
MissingOrUnparseableReclaimed ==
    last.op \in {"deep_clean", "construct"} =>
        /\ \A n \in PrefixedTemp \ {TempName(last.who)} :
            (tempRoot[n].exists /\ n \notin last.failed) =>
                tempRoot[n].lock.kind \notin {"missing", "corrupt", "nots"}
        /\ \A n \in PrefixedProf \ {ProfileName(last.who)} :
            (profRoot[n].exists /\ n \notin last.failed) =>
                profRoot[n].lock.kind \notin {"missing", "corrupt", "nots"}

\* C29: when the cleanup step of quit() begins, the lock file of the working
\* copy, and that of the profile directory if the instance has one, carry
\* the time of stop()
C29_MarkersFreshAtCleanup ==
    \A i \in Inst :
        pc[i] = "cleanup" =>
            /\ tempRoot[TempName(i)].exists =>
                tempRoot[TempName(i)].lock = ValidLock(now, i)
            /\ (profile[i] = "set" /\ profRoot[ProfileName(i)].exists) =>
                profRoot[ProfileName(i)].lock = ValidLock(now, i)

\* C30: no call of stop(), the first or a later one, with or without a
\* thread, with or without the directories, raises; after every call the
\* flag is cleared; a watcher that was never started has no thread joined;
\* and no step makes a directory, or a lock file in a directory that is gone
C30_StopIdempotent ==
    [][/\ watcher'.pc # "raised"
       /\ (watcher'.pc = "ready" /\ watcher'.stops >= 1) => ~watcher'.running
       /\ watcher.thread = "none" =>
            /\ watcher'.thread = "none"
            /\ watcher'.pc # "join"
       /\ ~watcher.copy.exists => watcher'.copy = Absent
       /\ ~watcher.prof.exists => watcher'.prof = Absent
       /\ (watcher.stops >= 1 /\ watcher'.stops > watcher.stops) =>
            /\ watcher'.running = watcher.running
            /\ watcher'.thread = watcher.thread]_vars

\* stop() has returned for the second time, on a watcher whose directories
\* were removed after the first call and whose thread was never started
C30_Witness ==
    /\ watcher.pc = "ready"
    /\ watcher.stops = 2
    /\ watcher.thread = "none"
    /\ watcher.profile_path
    /\ watcher.copy = Absent
    /\ watcher.prof = Absent

\* C31: no sweep of a construction raises, whatever another process does to
\* the entries meanwhile and whichever removal fails: every routine goes
\* through all the entries it listed, and the construction gets past its
\* sweeps
C31_SweepsAreAdvisory ==
    /\ [](reaper.pc # "raised")
    /\ [](reaper.pc \in {"list", "proceed"} => reaper.visited = reaper.listed)
    /\ <>(reaper.pc = "proceed")

\* the construction is past its sweeps, in which a marker had vanished
\* before it was opened, a marker could not be read, and a removal failed
C31_Witness ==
    /\ reaper.pc = "proceed"
    /\ reaper.moves = MaxMoves
    /\ {"FileNotFoundError", "PermissionError", "stuck"} \subseteq reaper.logged

\* a scratch profile that names the identifier of a working copy of root
Corresponds(n, root) == \E id \in ActiveIds(root) : Contains(n, id)

\* the steps of a startup purge: its two passes in "a", the construction of "b"
PurgeStep ==
    \/ last'.op = "cleanup_old_copies" /\ pc["a"] = "new"
    \/ last'.op \in {"deep_clean", "construct"}

\* C32: a startup purge keeps every scratch profile whose name corresponds
\* to a working copy that exists, and once its deep clean has run no scratch
\* profile is left that corresponds to none (unless its removal failed)
C32_OrphanSweepExact ==
    [][PurgeStep =>
        /\ \A n \in sysTmp :
            (StartsWith(n, MOZ_PROFILE_PREFIX) /\ Corresponds(n, tempRoot')) => n \in sysTmp'
        /\ last'.op = "deep_clean" =>
            \A n \in sysTmp' :
                (StartsWith(n, MOZ_PROFILE_PREFIX) /\ n \notin last'.failed) =>
                    Corresponds(n, tempRoot')]_vars

\* the part of C32 that holds: the deep clean by itself removes the scratch
\* profiles that correspond to no working copy it left, and keeps the others
OrphanPassExact ==
    [][last'.op = "deep_clean" =>
        \A n \in sysTmp :
            StartsWith(n, MOZ_PROFILE_PREFIX) =>
                (n \in sysTmp' <=> (Corresponds(n, tempRoot') \/ n \in last'.failed))]_vars

\* a deep clean found the scratch profile of the crashed instance, whose
\* working copy it left, and kept it
OrphanPassKept ==
    /\ last.op = "deep_clean"
    /\ tempRoot[TempName(DeadId)].exists
    /\ OwnedScratch \in sysTmp
    /\ OwnedScratch \notin last.failed

\* the sessions that have their directories and have not been torn down
AliveSessions == {s \in Sessions : managers.pc[s] \in {"copied", "profiled", "running"}}

\* C33: no directory has been written by two sessions, every session has
\* written only the directories of its own identifier, and no two sessions
\* that are alive at the same time have the same working directory or the
\* same profile directory
C33_InstancesNeverShare ==
    /\ \A i \in IdDraws :
        /\ Cardinality(managers.temp[i].wrote) <= 1
        /\ Cardinality(managers.prof[i].wrote) <= 1
        /\ \A s \in managers.temp[i].wrote \cup managers.prof[i].wrote : managers.id[s] = i
    /\ \A s \in AliveSessions : \A t \in AliveSessions \ {s} : OwnDir(s) # OwnDir(t)

\* the part of C33 that holds: a session writes only into the directories
\* named after its own identifier, and sessions with different identifiers
\* share nothing
WritesOnlyOwnDirs ==
    /\ \A i \in IdDraws :
        \A s \in managers.temp[i].wrote \cup managers.prof[i].wrote : managers.id[s] = i
    /\ \A s \in AliveSessions : \A t \in AliveSessions \ {s} :
        managers.id[s] # managers.id[t] =>
            /\ managers.temp[OwnDir(s)].wrote \subseteq {s}
            /\ managers.prof[OwnDir(s)].wrote \subseteq {s}

\* C34: while "a" is creating its working directory (the tree copied or
\* being copied, the initial lock file not yet written), no purge or sweep
\* of another instance removes that directory
C34_CreatingNeverSwept ==
    (last.op \in SweepOps /\ last.who # "a" /\ pc["a"] \in {"copy_open", "copy_write"}) =>
        \A r \in ManagedRemoved : r.name # TempName("a")

\* C35: whenever create_firefox_copy has returned a path, on a first call or
\* on a retry after a failed one, the directory holds a complete copy of the
\* installation and a lock file
C35_ReturnedCopyIsComplete ==
    copier.ret = "path" =>
        /\ copier.target.exists
        /\ copier.target.content = "complete"
        /\ copier.target.lock.kind = "valid"

\* the part of C35 that holds: a call that copied and returned a path has
\* left a complete copy
CopiedIsComplete ==
    (copier.ret = "path" /\ copier.io) =>
        copier.target.exists /\ copier.target.content = "complete"

\* a call failed part-way, and the retry has returned what it left
RetryReturnedPartial ==
    /\ copier.calls = 2
    /\ copier.ret = "path"
    /\ ~copier.io
    /\ copier.target = [exists |-> TRUE, content |-> "partial", lock |-> NoLock]


\* C36: once stop() has returned, the thread of the watcher writes no lock
\* file any more; and once the directories of the instance were removed, no
\* step of the thread makes a directory or a lock file
C36_NoWriteAfterStop ==
    [][/\ (watcher.pc = "ready" /\ watcher.stops >= 1
           /\ watcher.thread \in {"update_c", "update_p"}
           /\ watcher'.thread # watcher.thread) => watcher'.lost
       /\ (watcher.stops >= 1 /\ ~watcher.copy.exists) => watcher'.copy = Absent
       /\ (watcher.stops >= 1 /\ ~watcher.prof.exists) => watcher'.prof = Absent]_vars

\* what holds of the first half: a thread that had ended, or was asleep, when
\* stop() returned writes nothing afterwards
QuietThreadStaysQuiet ==
    [][(watcher.pc = "ready" /\ watcher.stops >= 1
        /\ watcher.thread \in {"none", "exit", "sleep", "check"}) =>
            /\ watcher'.thread \in {"none", "exit", "sleep", "check"}
            /\ watcher'.pc = "ready" =>
                (watcher'.copy \in {watcher.copy, Absent}
                    /\ watcher'.prof \in {watcher.prof, Absent})]_vars

\* C37: once stop() has cleared the flag, the thread of the watcher ends: it
\* starts no round after its next test of the flag, leaves a sleep it is in
\* only for that test, and is gone in the end; and a thread that has ended,
\* or was never started, never runs again
C37_ThreadEndsAfterStop ==
    /\ (~watcher.running) ~> ~Alive(watcher.thread)
    /\ [][/\ (~watcher.running /\ watcher.thread = "check") =>
                watcher'.thread \in {"check", "exit"}
          /\ (~watcher.running /\ watcher.thread = "sleep") =>
                /\ watcher'.thread \in {"sleep", "check"}
                /\ watcher'.clock <= watcher.wake
          /\ ~watcher.running => ~watcher'.running
          /\ ~Alive(watcher.thread) => watcher'.thread = watcher.thread]_vars

\* stop() returned after its join had timed out on a sleeping thread, and the
\* thread has ended when its sleep was over, a full interval after it began
C37_Witness ==
    /\ watcher.thread = "exit"
    /\ watcher.stops >= 1
    /\ watcher.waited >= JoinTimeout
    /\ watcher.clock = watcher.wake
    /\ watcher.wake >= LOCK_FILE_UPDATE_INTERVAL_SECONDS

\* C38: a refresher that was started is stopped in the end even when the
\* construction failed after its start: once the object of such a
\* construction has been given up and its destructor has run, the
\* refresher has been told to stop
C38_StartedRefresherIsStopped ==
    \A i \in Inst :
        (pc[i] = "reclaimed" /\ error[i].at = "launch") => ~running[i]

\* what holds of C38: a destructor that found the working copy has stopped
\* the refresher and attempted the removal of the directories
DelFailedWithCopyStops ==
    \A i \in Inst :
        (pc[i] = "reclaimed" /\ error[i].at = "launch" /\ hist[i] # <<>>) =>
            /\ ~running[i]
            /\ hist[i] \in TeardownOrders

\* the destructor of "a", whose launch had failed, has found no working copy
\* and done nothing, and the refresher has since rewritten the lock file of
\* the profile directory and sleeps until the next round
AbandonedRefresherRuns ==
    /\ pc["a"] = "reclaimed"
    /\ error["a"].at = "launch"
    /\ hist["a"] = <<>>
    /\ running["a"]
    /\ wpc["a"] = "sleep"
    /\ now > 0
    /\ ~tempRoot[TempName("a")].exists
    /\ profRoot[ProfileName("a")].exists
    /\ profRoot[ProfileName("a")].lock = ValidLock(now, "a")

\* the instance a managed directory is named after
Owner(n) == n[Len(n)]

\* the managed directories: prefix + id for the two instances and for the
\* one that crashed before
ManagedTemp == {TempName(i) : i \in Inst \cup {DeadId}}

ManagedProf == {ProfileName(i) : i \in Inst \cup {DeadId}}

\* a step has put a lock file into directory n of a root, or rewritten it
\* (a directory that is removed loses its lock file, which is no write)
MarkerWritten(before, after, n) ==
    /\ after[n].exists
    /\ after[n].lock # before[n].lock
    /\ after[n].lock # NoLock

\* the step is one of instance i: of its constructor, its quit(), its
\* destructor or its refresher thread
Acted(i) == pc'[i] # pc[i] \/ wpc'[i] # wpc[i] \/ wake'[i] # wake[i]

\* every marker of root that names an instance names the one its directory
\* is named after
MarkersNameOwner(root, managed) ==
    \A n \in managed :
        (root[n].exists /\ root[n].lock.id # "") => root[n].lock.id = Owner(n)

\* C39: in every state a lock file in a directory prefix + X that names an
\* instance names X; a lock file is written only by the instance its
\* directory is named after, and what that instance writes (once the file,
\* empty while it is rewritten, is complete) carries its own id
C39_MarkersCarryOwnerId ==
    /\ MarkersNameOwner(tempRoot, ManagedTemp)
    /\ MarkersNameOwner(profRoot, ManagedProf)
    /\ [][/\ MarkersNameOwner(tempRoot', ManagedTemp)
          /\ MarkersNameOwner(profRoot', ManagedProf)
          /\ \A n \in ManagedTemp :
                MarkerWritten(tempRoot, tempRoot', n) =>
                    /\ Owner(n) \in Inst
                    /\ Acted(Owner(n))
                    /\ tempRoot'[n].lock \in {CorruptLock, ValidLock(now, Owner(n))}
          /\ \A n \in ManagedProf :
                MarkerWritten(profRoot, profRoot', n) =>
                    /\ Owner(n) \in Inst
                    /\ Acted(Owner(n))
                    /\ profRoot'[n].lock \in {CorruptLock, ValidLock(now, Owner(n))}]_vars

\* both instances run, each with its two directories; the refresher of "a"
\* has rewritten its lock files in a later round, next to those of "b"
C39_Witness ==
    /\ pc["a"] = "running"
    /\ pc["b"] = "running"
    /\ now > InitNow
    /\ tempRoot[TempName("a")] = Dir(ValidLock(now, "a"))
    /\ profRoot[ProfileName("a")] = Dir(ValidLock(now, "a"))
    /\ tempRoot[TempName("b")].exists
    /\ tempRoot[TempName("b")].lock.id = "b"
    /\ profRoot[ProfileName("b")].exists
    /\ profRoot[ProfileName("b")].lock.id = "b"

\* the paths the instance has written or removed
Touched == footprint.written \cup footprint.removed

\* the installation is left as it was, and the binary handed to the client
\* lies in the working copy of the instance
SourceUntouched ==
    /\ \A p \in Touched : ~Under(p, footprint.source)
    /\ footprint.binary_location # <<>> =>
        /\ Under(footprint.binary_location, PathJoin(temp_dir, TempName("a")))
        /\ footprint.binary_location \in footprint.written
        /\ ~Under(footprint.binary_location, footprint.source)

\* C40: nothing the instance writes or removes, from the construction of its
\* manager to its teardown, lies in the installation or anywhere but under
\* the two roots, and the binary handed to the client lies in the working
\* copy of the instance
C40_SourceNeverModified ==
    /\ SourceUntouched
    /\ \A p \in Touched : Under(p, temp_dir) \/ Under(p, profiles_dir)

\* p is a rust_mozprofile entry of the system temp directory
IsScratchPath(p) ==
    /\ Len(p) = Len(SystemTemp) + 1
    /\ Under(p, SystemTemp)
    /\ StartsWith(Basename(p), MOZ_PROFILE_PREFIX)

\* C40 as amended: the same, except that the sweeps and the teardown also
\* remove the rust_mozprofile entries of the system temp directory, which
\* lie beside the two roots; nothing is written there
C40_SourceNeverModifiedButScratchRemoved ==
    /\ SourceUntouched
    /\ \A p \in footprint.written : Under(p, temp_dir) \/ Under(p, profiles_dir)
    /\ \A p \in footprint.removed :
        Under(p, temp_dir) \/ Under(p, profiles_dir) \/ IsScratchPath(p)

\* quit() has returned on an instance whose library was patched one level
\* down in the working copy and whose client was handed a binary; a leftover
\* directory and the scratch profile of another process were removed on the way
C40_Witness ==
    /\ footprint.pc = "done"
    /\ footprint.system = "Windows"
    /\ footprint.binary_location # <<>>
    /\ footprint.undetected_path \o <<Name("core"), Name("xul.dll")>> \in footprint.written
    /\ PathJoin(temp_dir, TempName(DeadId)) \in footprint.removed
    /\ PathJoin(temp_dir, TempName("a")) \in footprint.removed
    /\ PathJoin(SystemTemp, ForeignScratch) \in footprint.removed
====
